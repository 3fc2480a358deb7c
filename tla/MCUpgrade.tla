------------------------------ MODULE MCUpgrade ------------------------------
(***************************************************************************)
(* Upgrade for TLC: a boot part, a kernel in a UBI volume and its backup;  *)
(* image 1 has the PIT of the device, image 2 a new one.                  *)
(***************************************************************************)
EXTENDS Upgrade

MCBoot    == {"boot_1"}
MCPrimary == {"kernel_1"}
MCBackup  == {"kernel_2"}
MCBins    == <<"boot_1", "kernel_1", "kernel_2">>
MCVolumes == <<"kernel_1">>
MCKeys    == <<"key_block_1", "fe_bin_1">>
MCPitOf   == <<1, 2>>
=============================================================================
