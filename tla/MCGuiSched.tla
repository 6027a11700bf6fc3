----------------------------- MODULE MCGuiSched -----------------------------
(* Two jobs of each kind: the jobs schedule others while the device check  *)
(* runs, or only callbacks do; or jobs schedule others with no device check.*)
EXTENDS GuiSched

OnceJobs   == {"sleep", "later"}
RepeatJobs == {"check", "live"}

Checked   == [inTick |-> TRUE, forever |-> {"check"}]
Outside   == [inTick |-> FALSE, forever |-> {}]
Unchecked == [inTick |-> TRUE, forever |-> {}]

SafeUses   == {Checked, Outside}
SleepsOnly == {Unchecked}
=============================================================================
