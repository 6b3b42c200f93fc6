---------------------------- MODULE MCThesisExit ----------------------------
(* ThesisExit with every plan of the program for an entry at 10000, and prices *)
(* on both sides of it, up to beyond the last stage and the widest stop.       *)
EXTENDS ThesisExit

Made == INSTANCE ExitPlans

AllPlans == Made!EntryPlans(10000) \cup Made!OtherPlans(10000)
FewPlans == {Made!ExitPlan("crypto", "breakout", "hft", long, 10000) :
               long \in BOOLEAN}

\* profile_settings: six tenths of the profit wanted under each profile
AllMargins == {(6 * Made!NetProfit[p]) \div 10 : p \in Made!Profile}

=============================================================================
