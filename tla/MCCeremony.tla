----------------------------- MODULE MCCeremony -----------------------------
(* Four members of whom one is faulty: the committee can lose one member.  *)
EXTENDS Ceremony

Session(stages, restarts) == [stages |-> stages, restarts |-> restarts]

MCPlans == {
  Session(<<"deal", "open">>, TRUE),               \* presign_with_restart
  Session(<<"redeal">>, FALSE),                    \* triple_robust, once its factors are dealt
  Session(<<"deal", "openall", "signall">>, FALSE),  \* presign, sign_ki
  Session(<<"deal", "open", "sign">>, FALSE)}      \* sign_ki_robust
=============================================================================
