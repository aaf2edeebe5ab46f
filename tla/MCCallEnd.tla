---- MODULE MCCallEnd ----
(***************************************************************************)
(* Two tool tasks race each other and the watchdogs to end one call, and   *)
(* two glares use up the timer's retries.  The four errands are the ones   *)
(* whose outcome goes to different places.                                 *)
(***************************************************************************)
EXTENDS CallEnd

MCErrands ==
    {[origin |-> "no errand", channel |-> "fixed"], [origin |-> "chat", channel |-> "fixed"],
     [origin |-> "chat", channel |-> "others"], [origin |-> "nobody", channel |-> "fixed"]}
====
