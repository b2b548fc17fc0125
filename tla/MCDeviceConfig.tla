--------------------------- MODULE MCDeviceConfig ---------------------------
(* Three specs: everything on, plugin and exporter off, CPX partitions on a  *)
(* node pool of their own.                                                   *)
EXTENDS DeviceConfigController, TLC

MCSpec(plugin, exporter, selector, mode, count) ==
    [plugin |-> plugin, exporter |-> exporter, selector |-> selector,
     mode |-> mode, count |-> count]

MCAllOn     == MCSpec(TRUE, TRUE, NoSelector, "spx", 1)
MCOff       == MCSpec(FALSE, FALSE, NoSelector, "spx", 1)
MCCpx       == MCSpec(TRUE, TRUE, "pool", "cpx", 2)

MCSpecs    == {MCAllOn, MCOff, MCCpx}
MCTwoSpecs == {MCOff, MCCpx}
MCChildren == Children
MCWatched  == Watched

MCSymmetry == Permutations(Configs)
=============================================================================
