---------------------------- MODULE MCSimsConfig ----------------------------
(* A catalog with two families of each vendor; files that differ from a       *)
(* plain one in what matters together; flags at and beyond their limits.      *)
EXTENDS SimsConfig

MCFamilies ==
    [MI300X |-> [vendor |-> "amd",    memory |-> 192],
     MI210  |-> [vendor |-> "amd",    memory |-> 64],
     T4     |-> [vendor |-> "nvidia", memory |-> 16],
     H100   |-> [vendor |-> "nvidia", memory |-> 80]]

MCFlags(vendors, workers, gpus, taints) ==
    [vendor : vendors, workers : workers, gpus : gpus, taint : taints]

MCFile(vendor, workers, perWorker, family, mig, mode, count, util) ==
    [vendor |-> vendor, workers |-> workers, perWorker |-> perWorker,
     taint |-> FALSE, family |-> family, memory |-> 0, mig |-> mig,
     mode |-> mode, count |-> count, util |-> util]

MCTexts == {NoText} \cup [lo : {0, 60, Junk}, hi : {-1, 60, 100, 101}]
MCNaNTexts == {NoText, UtilRange(NaN, NaN)}

MCRanges == {NoText, UtilRange(60, 80), UtilRange(80, 60), UtilRange(0, 101)}

MCFlagSets ==
    MCFlags({Unset, "nvidia", "amd", "other"}, {Unset, -1, 1}, {Unset, -1, 0, 3}, {Unset, TRUE})

\* The features are AMD's or NVIDIA's; the ranges only matter on AMD.
MCFiles ==
    {NoFile}
    \cup {MCFile(v, w, g, f, FALSE, "", 0, NoText) :
            v \in Vendors, w \in {0, 1}, g \in {0, 3}, f \in {"", "MI210", "H100", "R9"}}
    \cup {MCFile(v, 1, 3, "", mig, m, c, NoText) :
            v \in Vendors, mig \in BOOLEAN, m \in {"", "spx", "cpx", "dpx"}, c \in {0, 2, 8, 9}}
    \cup {MCFile("amd", 1, 1, "", FALSE, "", 0, u) : u \in MCRanges}
    \cup {[MCFile("amd", 1, 1, f, FALSE, "", 0, NoText)
             EXCEPT !.taint = t, !.memory = m] :
            f \in {"", "MI210"}, t \in BOOLEAN, m \in {0, 99}}

\* The inputs of the counterexamples.
MCPlainFlags   == MCFlags({Unset}, {Unset}, {Unset}, {Unset})
MCTaintFlags   == MCFlags({"amd"}, {Unset}, {Unset}, {TRUE})
MCCountFlags   == MCFlags({"nvidia", "amd"}, {Unset}, {3}, {Unset})
MCNoFiles      == {NoFile}
MCModeFiles    == {MCFile("amd", 1, 1, "MI300X", FALSE, "cpx", 0, NoText)}
=============================================================================
