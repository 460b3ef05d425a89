------------------------- MODULE MCAcceleratorWeigher -------------------------
(***************************************************************************)
(* Two compute hosts with the tree the furiosa cyborg driver reports: two  *)
(* CUSTOM_AICHIP device RPs, one per NPU, carrying OWNER_CYBORG and their  *)
(* CUSTOM_FURIOSA_<pid> trait, and one VGPU RP with a reserved unit.  The  *)
(* rc_pattern matches CUSTOM_AICHIP and VGPU.                              *)
(***************************************************************************)
EXTENDS AcceleratorWeigher

MCHosts == {"h1", "h2"}
MCHostOrder == <<"h1", "h2">>
MCRoot == [h \in MCHosts |-> "cn"]
MCChildren == [h \in MCHosts |-> <<"npu0", "npu1", "vgpu">>]

Chip == [total |-> 1, reserved |-> 0]
MCInventory == [h \in MCHosts |->
                  [rp \in {"npu0", "npu1", "vgpu"} |->
                     IF rp = "vgpu" THEN ("VGPU" :> [total |-> 2, reserved |-> 1])
                     ELSE ("CUSTOM_AICHIP" :> Chip)]]
MCProviderTraits == [h \in MCHosts |->
                       ("npu0" :> {"OWNER_CYBORG", "CUSTOM_FURIOSA_0000"}) @@
                       ("npu1" :> {"OWNER_CYBORG", "CUSTOM_FURIOSA_0001"}) @@
                       ("vgpu" :> {})]
MCRcPatternMatches == {"CUSTOM_AICHIP", "VGPU"}

\* Request groups (RequestGroup.resources and required_traits).
TwoChips == [resources |-> ("CUSTOM_AICHIP" :> 2), required_traits |-> {}]
OneChip == [resources |-> ("CUSTOM_AICHIP" :> 1), required_traits |-> {}]
ChipAndVgpu == [resources |-> ("CUSTOM_AICHIP" :> 1 @@ "VGPU" :> 1),
                required_traits |-> {}]
ChipZero == [resources |-> ("CUSTOM_AICHIP" :> 1),
             required_traits |-> {"CUSTOM_FURIOSA_0000"}]
NoAccel == [resources |-> ("MEMORY_MB" :> 512 @@ "VGPU" :> BadAmount),
            required_traits |-> {}]
ZeroVgpu == [resources |-> ("VGPU" :> 0), required_traits |-> {}]

MCRawRequests == {<<OneChip, ChipAndVgpu>>, <<ChipZero>>,
                  <<NoAccel>>}
SnapshotRequests == {<<TwoChips>>}
ZeroRequests == {<<ZeroVgpu>>}
RankingRequests == {<<OneChip, ChipAndVgpu>>}

AnyUsage == UsageStates
IdleUsage == {[h \in MCHosts |-> [rp \in ChildSet(h) |->
                                    [rc \in DOMAIN MCInventory[h][rp] |-> 0]]]}

AllFaults == {"connect_error", "root_non200", "root_empty", "tree_exception",
              "usage_non200"}
NoFaults == {}
UsageFaults == {"usage_non200"}
ConnectFaults == {"connect_error"}
BothPolicies == {"sum-fit", "product-fit"}
ProductFit == {"product-fit"}

=============================================================================
