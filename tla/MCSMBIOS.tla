------------------------------ MODULE MCSMBIOS ------------------------------
(* Instantiates SMBIOS with mappings below and above the physical table.   *)
EXTENDS SMBIOS

\* The table mapped 2 bytes below, at, and 2 bytes above its physical address.
MCDeltas == {-2, 0, 2}
=============================================================================
