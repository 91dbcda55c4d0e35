------------------------- MODULE MCDataTargetAdapter -------------------------
(* Model-checking instance of DataTargetAdapter: 8-bit target pointers     *)
(* standing for 32-bit ones, 16-bit CLRDATA_ADDRESS standing for 64-bit,   *)
(* one mapped address below and one above the sign bit.                    *)
EXTENDS DataTargetAdapter

MC_TargetAddrs == {16, 144}    \* 0x10 and 0x90 (sign bit set)
MC_Machines == {"I386", "ARM", "THUMB", "ARMNT", "AMD64", "ARM64",
                "RISCV64", "LOONGARCH64", "IA64"}
MC_OSes == {"Windows", "Linux", "OSX", "Unknown"}
MC_Regions == {48}             \* one region the remote allocator hands out
=============================================================================
