--------------------------- MODULE MCTriageService ---------------------------
(* Instances of TriageService for TLC. *)
EXTENDS TriageService, TLC

(* What the classifier may return: a flag that agrees with the intent, a   *)
(* flag without the intent, an intent without the flag, an unparsed answer.*)
PlainLabels == {<<"faq", FALSE>>, <<"escalation", TRUE>>}
FlaggedLabels == PlainLabels \cup {<<"faq", TRUE>>}
AllLabels == FlaggedLabels \cup {<<"escalation", FALSE>>, <<"unknown", FALSE>>}

(* Calls, resumes and threads are interchangeable; for safety runs only. *)
Symmetry == Permutations(Calls) \cup Permutations(Resumes) \cup Permutations(Threads)

=============================================================================
