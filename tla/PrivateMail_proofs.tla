-------------------------- MODULE PrivateMail_proofs --------------------------
(***************************************************************************)
(* Theorems about PrivateMail, for any number of runs, faults and threads. *)
(* MailInv is inductive.  Its parts are proved one after the other: the    *)
(* types, who may send (WhoSends), the link (LinkOnce), the failures       *)
(* (FailOnce, by counting who may still report one, with FailNoted, by     *)
(* counting the deliveries that are being noted) and the runs that the     *)
(* two mails are about (RunsApart).                                        *)
(***************************************************************************)
EXTENDS PrivateMail, FiniteSetTheorems, TLAPS

-----------------------------------------------------------------------------
(* Types. *)

\* The senders, a finite set.
LEMMA SenderTypes ==
  ASSUME ConstantsOK
  PROVE  /\ "child" \in Senders /\ "boot" \in Senders /\ "child" # "boot"
         /\ Notifiers \subseteq Senders /\ "child" \notin Notifiers /\ "boot" \notin Notifiers
         /\ IsFiniteSet(Senders) /\ "recovery" \notin Senders
<1>1. Senders = (Notifiers \cup {"child"}) \cup {"boot"}
  BY DEF Senders
<1>2. IsFiniteSet(Senders)
  BY <1>1, FS_AddElement DEF ConstantsOK
<1>3. QED
  BY <1>2 DEF Senders, ConstantsOK

\* A mail that is written and not noted is counted when it is forgotten.
LEMMA ForgottenType ==
  ASSUME ConstantsOK, NEW S \in SUBSET Senders
  PROVE  /\ Forgotten(S) \in Nat
         /\ \A s \in S : at[s].pc = "note" => Forgotten(S) >= 1
<1> DEFINE F == {s \in S : at[s].pc = "note"}
<1>1. IsFiniteSet(F)
  BY SenderTypes, FS_Subset
<1>2. Cardinality(F) \in Nat
  BY <1>1, FS_CardinalityType
<1>3. F # {} => Cardinality(F) # 0
  BY <1>1, FS_EmptySet
<1>4. Forgotten(S) = Cardinality(F)
  BY DEF Forgotten
<1>5. \A s \in S : at[s].pc = "note" => F # {}
  OBVIOUS
<1> HIDE DEF F
<1>6. QED
  BY <1>2, <1>3, <1>4, <1>5

\* The next step of one sender is a step, and one of his.
LEMMA SendersStep ==
  ASSUME ConstantsOK, TypeOK, NEW s \in Senders, NEW x \in Steps,
         s # "child" => x.pc \in {"idle", "check", "send", "note"},
         at' = [at EXCEPT ![s] = x]
  PROVE  SendersOK'
BY DEF TypeOK, SendersOK

LEMMA GotoTypes ==
  ASSUME ConstantsOK, TypeOK, NEW s \in Senders,
         NEW p \in {"idle", "work", "line", "check", "send", "note", "exit"},
         s # "child" => p \in {"idle", "check", "send", "note"}, Goto(s, p)
  PROVE  SendersOK' /\ up' = up
<1>1. at[s] \in Steps
  BY DEF TypeOK, SendersOK
<1>2. [at[s] EXCEPT !.pc = p] \in Steps /\ [at[s] EXCEPT !.pc = p].pc = p
  BY <1>1 DEF Steps
<1>3. at' = [at EXCEPT ![s] = [at[s] EXCEPT !.pc = p]]
  BY DEF Goto
<1>4. QED
  BY <1>2, <1>3, SendersStep DEF Goto

LEMMA IdleTypes == ASSUME ConstantsOK PROVE Idle \in Steps /\ Idle.pc = "idle"
BY DEF Idle, Steps, Kinds, ConstantsOK

LEMMA LeaveTypes ==
  ASSUME ConstantsOK, TypeOK, NEW s \in Senders, Leave(s)
  PROVE  SendersOK' /\ up' \in {up, "up"}
<1>1. at[s] \in Steps
  BY DEF TypeOK, SendersOK
<1>2. After(s) \in Steps /\ (s # "child" => After(s).pc = "idle")
  BY <1>1, IdleTypes DEF After, Steps
<1>3. QED
  BY <1>2, SendersStep DEF Leave

\* Every kind of step keeps the types.
LEMMA TypeStep ==
  ASSUME ConstantsOK, TypeOK, [Next]_vars
  PROVE  TypeOK'
<1> USE SenderTypes
<1>c. at["child"] \in Steps
  BY DEF TypeOK, SendersOK
<1>n. \A n \in Nat : \A p \in {"work", "check"} : \A k \in Kinds :
         [pc |-> p, kind |-> k, of |-> n] \in Steps /\ [pc |-> p, kind |-> k, of |-> n].pc = p
  BY DEF Steps
<1>s. ASSUME NEW s \in Senders, Deliver(s)
      PROVE  sent' \in [Kinds -> Nat] /\ about' \in [Kinds -> SUBSET Nat]
  <2>1. at[s].kind \in Kinds /\ at[s].of \in Nat
    BY DEF TypeOK, SendersOK, Steps
  <2>2. sent \in [Kinds -> Nat] /\ about \in [Kinds -> SUBSET Nat]
    BY DEF TypeOK
  <2>3. sent[at[s].kind] + 1 \in Nat /\ about[at[s].kind] \cup {at[s].of} \in SUBSET Nat
    BY <2>1, <2>2
  <2>4. QED
    BY <1>s, <2>1, <2>2, <2>3 DEF Deliver
<1>f. Fault => left' \in 0..MaxFaults
  BY DEF Fault, TypeOK, ConstantsOK
<1>1. CASE UNCHANGED vars
  BY <1>1 DEF vars, TypeOK, SendersOK
<1>2. CASE Start
  BY <1>2 DEF Start, TypeOK, SendersOK
<1>3. CASE Begin
  <2>1. run + 1 \in Nat
    BY DEF TypeOK
  <2>2. SendersOK'
    BY <1>3, <1>n, <2>1, SendersStep DEF Begin, Kinds
  <2>3. overlaps' \in Nat
    BY <1>3 DEF Begin, TypeOK
  <2>4. QED
    BY <1>3, <2>1, <2>2, <2>3 DEF Begin, TypeOK
<1>4. CASE ChildDone
  <2>1. SendersOK' /\ up' = up
    BY <1>4, GotoTypes DEF ChildDone
  <2>2. QED
    BY <1>4, <2>1 DEF ChildDone, TypeOK
<1>5. CASE ChildLine
  <2>1. SendersOK' /\ up' = up
    BY <1>5, GotoTypes DEF ChildLine
  <2>2. QED
    BY <1>f, <1>5, <2>1 DEF ChildLine, TypeOK
<1>6. ASSUME FailRun
      PROVE  SendersOK'
  <2>1. [at["child"] EXCEPT !.pc = "check", !.kind = "fail"] \in Steps
    BY <1>c DEF Steps, Kinds
  <2>2. at' = [at EXCEPT !["child"] = [at["child"] EXCEPT !.pc = "check", !.kind = "fail"]]
    BY <1>6 DEF FailRun
  <2>3. QED
    BY <2>1, <2>2, SendersStep
<1>7. CASE ChildRaises
  BY <1>7, <1>6 DEF ChildRaises, FailRun, TypeOK
<1>8. CASE ChildBreaks
  <2>1. lost' \in Nat
    BY <1>8, ForgottenType DEF ChildBreaks, TypeOK
  <2>2. broken' \subseteq Nat
    BY <1>8, <1>c DEF ChildBreaks, TypeOK, Steps
  <2>3. QED
    BY <1>f, <1>8, <1>6, <2>1, <2>2 DEF ChildBreaks, FailRun, TypeOK
<1>9. ASSUME NEW n \in Notifiers, Notify(n, at) \/ Notify(n, [at EXCEPT !["child"] = Idle])
      PROVE  SendersOK'
  <2>1. [pc |-> "check", kind |-> "fail", of |-> 0] \in Steps
    BY DEF Steps, Kinds
  <2>2. QED
    BY <1>9, <2>1, IdleTypes DEF Notify, SendersOK, TypeOK
<1>10. ASSUME NEW n \in Notifiers, RunnerEnds(n)
       PROVE  TypeOK'
  BY <1>10, <1>9 DEF RunnerEnds, TypeOK
<1>11. ASSUME NEW n \in Notifiers, ChildKilled(n)
       PROVE  TypeOK'
  <2>1. lost' \in Nat
    BY <1>11, ForgottenType DEF ChildKilled, TypeOK
  <2>2. QED
    BY <1>f, <1>11, <1>9, <2>1 DEF ChildKilled, TypeOK
<1>12. ASSUME NEW s \in Senders, CheckReady(s)
       PROVE  TypeOK'
  <2>1. SendersOK' /\ up' \in {up, "up"}
    BY <1>12, GotoTypes, LeaveTypes DEF CheckReady
  <2>2. QED
    BY <1>12, <2>1 DEF CheckReady, TypeOK
<1>13. ASSUME NEW s \in Senders, CheckFail(s)
       PROVE  TypeOK'
  <2>1. CASE ~Leave(s)
    <3>1. [at[s] EXCEPT !.pc = "send", !.of = run] \in Steps
      <4>1. at[s] \in Steps /\ run \in Nat
        BY DEF TypeOK, SendersOK
      <4>2. QED
        BY <4>1 DEF Steps
    <3>2. at' = [at EXCEPT ![s] = [at[s] EXCEPT !.pc = "send", !.of = run]] /\ up' = up
      BY <1>13, <2>1 DEF CheckFail
    <3>3. SendersOK'
      BY <3>1, <3>2, SendersStep DEF TypeOK, SendersOK, Steps
    <3>4. QED
      BY <1>13, <3>2, <3>3 DEF CheckFail, TypeOK
  <2>2. CASE Leave(s)
    BY <1>13, <2>2, LeaveTypes DEF CheckFail, TypeOK
  <2>3. QED
    BY <2>1, <2>2
<1>14. ASSUME NEW s \in Senders, Send(s)
       PROVE  TypeOK'
  <2>1. SendersOK' /\ up' = up
    BY <1>14, GotoTypes DEF Send
  <2>2. QED
    BY <1>14, <1>s, <2>1 DEF Send, TypeOK
<1>15. ASSUME NEW s \in Senders, SendFails(s)
       PROVE  TypeOK'
  <2>1. SendersOK' /\ up' \in {up, "up"}
    BY <1>15, LeaveTypes DEF SendFails
  <2>2. sent' \in [Kinds -> Nat] /\ about' \in [Kinds -> SUBSET Nat] /\ lost' \in Nat
    BY <1>15, <1>s DEF SendFails, TypeOK
  <2>3. QED
    BY <1>f, <1>15, <2>1, <2>2 DEF SendFails, TypeOK
<1>16. ASSUME NEW s \in Senders, Note(s)
       PROVE  TypeOK'
  <2>1. at[s].kind \in Kinds
    BY DEF TypeOK, SendersOK, Steps
  <2>2. QED
    BY <1>16, <2>1, LeaveTypes DEF Note, TypeOK, Kinds
<1>17. ASSUME NEW s \in Senders, NoteLost(s)
       PROVE  TypeOK'
  BY <1>f, <1>17, LeaveTypes DEF NoteLost, TypeOK
<1>18. CASE ServerCrash
  <2>1. lost' \in Nat
    BY <1>18, ForgottenType DEF ServerCrash, TypeOK
  <2>2. SendersOK'
    BY <1>18, IdleTypes DEF ServerCrash, SendersOK
  <2>3. QED
    BY <1>f, <1>18, <2>1, <2>2 DEF ServerCrash, TypeOK
<1>19. CASE Recover
  <2>1. SendersOK'
    BY <1>19, <1>9 DEF Recover, TypeOK, SendersOK
  <2>2. QED
    BY <1>19, <2>1 DEF Recover, TypeOK
<1>20. CASE Retry
  <2>1. SendersOK'
    <3>1. CASE Missed
      <4>1. run \in Nat
        BY DEF TypeOK
      <4>2. QED
        BY <1>20, <1>n, <3>1, <4>1, SendersStep DEF Retry, Kinds
    <3>2. CASE ~Missed
      BY <1>20, <3>2 DEF Retry, TypeOK, SendersOK
    <3>3. QED
      BY <3>1, <3>2
  <2>2. QED
    BY <1>20, <2>1 DEF Retry, TypeOK
<1>21. QED
  BY <1>1, <1>2, <1>3, <1>4, <1>5, <1>7, <1>8, <1>10, <1>11, <1>12, <1>13, <1>14, <1>15,
     <1>16, <1>17, <1>18, <1>19, <1>20 DEF Next, Child, SendStep

-----------------------------------------------------------------------------
(* What a step does to the senders, field by field. *)

Others(s) == \A r \in Senders : r # s => at'[r] = at[r]

LEMMA SenderFields ==
  ASSUME ConstantsOK, TypeOK, NEW s \in Senders
  PROVE  /\ at[s] \in Steps
         /\ at[s].kind \in Kinds /\ at[s].of \in Nat
         /\ s # "child" => at[s].pc \in {"idle", "check", "send", "note"}
BY DEF TypeOK, SendersOK, Steps

LEMMA GotoView ==
  ASSUME ConstantsOK, TypeOK, NEW s \in Senders, NEW p \in {"check", "send", "note", "exit", "line"},
         Goto(s, p)
  PROVE  /\ at'[s].pc = p /\ at'[s].kind = at[s].kind /\ at'[s].of = at[s].of
         /\ Others(s) /\ up' = up
BY DEF Goto, TypeOK, SendersOK, Steps, Others

LEMMA LeaveView ==
  ASSUME ConstantsOK, TypeOK, NEW s \in Senders, Leave(s)
  PROVE  /\ at'[s].pc = IF s = "child" THEN "exit" ELSE "idle"
         /\ s = "child" => at'[s].kind = at[s].kind /\ at'[s].of = at[s].of
         /\ Others(s) /\ up' = IF s = "boot" THEN "up" ELSE up
BY DEF Leave, After, Idle, TypeOK, SendersOK, Steps, Others

LEMMA FailView ==
  ASSUME ConstantsOK, TypeOK, FailRun
  PROVE  /\ at'["child"].pc = "check" /\ at'["child"].kind = "fail"
         /\ at'["child"].of = at["child"].of
         /\ Others("child") /\ status' = "failed"
BY SenderTypes DEF FailRun, TypeOK, SendersOK, Steps, Others

LEMMA CheckFailView ==
  ASSUME ConstantsOK, TypeOK, NEW s \in Senders, CheckFail(s)
  PROVE  \/ Leave(s)
         \/ /\ status = "failed" /\ "fail" \notin noted
            /\ at'[s].pc = "send" /\ at'[s].kind = "fail" /\ at'[s].of = run
            /\ Others(s) /\ up' = up
BY DEF CheckFail, MailAlreadySent, TypeOK, SendersOK, Steps, Others

LEMMA NotifyView ==
  ASSUME ConstantsOK, TypeOK, NEW n \in Notifiers,
         Notify(n, [at EXCEPT !["child"] = Idle])
  PROVE  /\ at'["child"].pc = "idle" /\ at[n].pc = "idle"
         /\ at'[n].pc = "check" /\ at'[n].kind = "fail"
         /\ \A r \in Senders : r \notin {"child", n} => at'[r] = at[r]
BY SenderTypes DEF Notify, Idle, TypeOK, SendersOK

LEMMA EndView ==
  ASSUME ConstantsOK, TypeOK, NEW n \in Notifiers, RunnerEnds(n) \/ ChildKilled(n)
  PROVE  /\ at'["child"].pc = "idle" /\ at[n].pc = "idle"
         /\ at'[n].pc = "check" /\ at'[n].kind = "fail"
         /\ \A r \in Senders : r \notin {"child", n} => at'[r] = at[r]
         /\ UNCHANGED <<queued, run, overlaps, noted, up, sent, about, broken>>
<1>1. Notify(n, [at EXCEPT !["child"] = Idle])
  BY DEF RunnerEnds, ChildKilled
<1>2. UNCHANGED <<queued, run, overlaps, noted, up, sent, about, broken>>
  BY DEF RunnerEnds, ChildKilled
<1>3. QED
  BY <1>1, <1>2, NotifyView

LEMMA RecoverView ==
  ASSUME ConstantsOK, TypeOK, NEW n \in Notifiers, Notify(n, at)
  PROVE  /\ at[n].pc = "idle" /\ at'[n].pc = "check" /\ at'[n].kind = "fail"
         /\ Others(n)
BY SenderTypes DEF Notify, TypeOK, SendersOK, Others

LEMMA BeginView ==
  ASSUME ConstantsOK, TypeOK, Begin
  PROVE  /\ at'["child"].pc = "work" /\ at'["child"].kind = "ready"
         /\ at'["child"].of = run + 1 /\ Others("child") /\ up' = up
BY SenderTypes DEF Begin, TypeOK, SendersOK, Others

LEMMA RetryView ==
  ASSUME ConstantsOK, TypeOK, Retry, Missed
  PROVE  /\ at'["boot"].pc = "check" /\ at'["boot"].kind = "ready"
         /\ at'["boot"].of = run /\ Others("boot") /\ up' = up
BY SenderTypes DEF Retry, TypeOK, SendersOK, Others

LEMMA CrashView ==
  ASSUME ConstantsOK, ServerCrash
  PROVE  \A s \in Senders : at'[s].pc = "idle"
BY DEF ServerCrash, Idle

-----------------------------------------------------------------------------
\* Who sends which mail, and when.
LEMMA WhoStep ==
  ASSUME ConstantsOK, TypeOK, WhoSends, [Next]_vars
  PROVE  WhoSends'
<1> USE SenderTypes, SenderFields
<1>0. /\ "child" \in Senders /\ "boot" \in Senders /\ run \in Nat
      /\ up \in {"recover", "retry", "up"}
  BY DEF TypeOK
<1>1. CASE UNCHANGED vars
  BY <1>1 DEF vars, WhoSends, Active
<1>2. CASE Start
  BY <1>2 DEF Start, WhoSends, Active
<1>3. CASE Begin
  <2>1. /\ queued /\ up # "recover" /\ at["child"].pc = "idle"
        /\ status' = "running" /\ queued' = FALSE /\ run' = run + 1
        /\ at'["child"].pc = "work" /\ at'["child"].kind = "ready"
        /\ at'["child"].of = run + 1 /\ up' = up
        /\ at'["boot"] = at["boot"] /\ \A n \in Notifiers : at'[n] = at[n]
    BY <1>3, BeginView DEF Begin, Others
  <2>2. ~Active("boot")
    BY <2>1 DEF WhoSends
  <2>3. QED
    BY <1>0, <2>1, <2>2 DEF WhoSends, Active
<1>4. CASE ChildDone
  BY <1>0, <1>4, GotoView DEF ChildDone, WhoSends, Active, Others
<1>5. CASE ChildLine
  BY <1>0, <1>5, GotoView DEF ChildLine, WhoSends, Active, Others
<1>7. CASE ChildRaises
  BY <1>0, <1>7, FailView DEF ChildRaises, WhoSends, Active, Others
<1>8. CASE ChildBreaks
  <2>1. /\ at["child"].pc \in {"line", "check", "note"} /\ at["child"].kind = "ready"
        /\ status' = "failed" /\ at'["child"].pc = "check" /\ at'["child"].kind = "fail"
        /\ at'["child"].of = at["child"].of
        /\ at'["boot"] = at["boot"] /\ \A n \in Notifiers : at'[n] = at[n]
        /\ UNCHANGED <<queued, run, up>>
    BY <1>8, FailView DEF ChildBreaks, Others
  <2>2. Active("child") /\ status # "running" /\ up # "recover"
    BY <1>0, <2>1 DEF WhoSends, Active
  <2>3. QED
    BY <1>0, <2>1, <2>2 DEF WhoSends, Active
<1>10. ASSUME NEW n \in Notifiers, RunnerEnds(n)
       PROVE  WhoSends'
  <2>1. /\ at["child"].pc = "exit" /\ at'["child"].pc = "idle"
        /\ at'[n].pc = "check" /\ at'[n].kind = "fail"
        /\ at'["boot"] = at["boot"]
        /\ \A m \in Notifiers : m # n => at'[m] = at[m]
        /\ UNCHANGED <<status, queued, run, up>>
    <3>1. /\ at'["child"].pc = "idle" /\ at'[n].pc = "check" /\ at'[n].kind = "fail"
          /\ \A r \in Senders : r \notin {"child", n} => at'[r] = at[r]
          /\ UNCHANGED <<queued, run, up>>
      BY <1>10, EndView
    <3>2. QED
      BY <1>10, <3>1 DEF RunnerEnds
  <2>2. Active("child") /\ ~Active("boot") /\ up # "recover"
    BY <1>0, <2>1 DEF WhoSends, Active
  <2>3. QED
    BY <2>1, <2>2 DEF WhoSends, Active
<1>11. ASSUME NEW n \in Notifiers, ChildKilled(n)
       PROVE  WhoSends'
  <2>1. /\ at["child"].pc \notin {"idle", "exit"} /\ at'["child"].pc = "idle"
        /\ at'[n].pc = "check" /\ at'[n].kind = "fail"
        /\ at'["boot"] = at["boot"]
        /\ \A m \in Notifiers : m # n => at'[m] = at[m]
        /\ status' = (IF status = "running" THEN "failed" ELSE status)
        /\ UNCHANGED <<queued, run, up>>
    <3>1. /\ at'["child"].pc = "idle" /\ at'[n].pc = "check" /\ at'[n].kind = "fail"
          /\ \A r \in Senders : r \notin {"child", n} => at'[r] = at[r]
          /\ UNCHANGED <<queued, run, up>>
      BY <1>11, EndView
    <3>2. QED
      BY <1>11, <3>1 DEF ChildKilled
  <2>2. Active("child") /\ ~Active("boot") /\ up # "recover"
    BY <1>0, <2>1 DEF WhoSends, Active
  <2>3. QED
    BY <2>1, <2>2 DEF WhoSends, Active
<1>12. ASSUME NEW s \in Senders, at[s].pc \notin {"idle", "work"}, Leave(s),
              UNCHANGED <<status, queued, run>>
       PROVE  WhoSends'
  BY <1>0, <1>12, LeaveView DEF WhoSends, Active, Others
<1>13. ASSUME NEW s \in Senders, NEW p \in {"send", "note"}, Goto(s, p),
              at[s].pc \in {"check", "send"}, UNCHANGED <<status, queued, run>>
       PROVE  WhoSends'
  BY <1>0, <1>13, GotoView DEF WhoSends, Active, Others
<1>14. ASSUME NEW s \in Senders, CheckFail(s)
       PROVE  WhoSends'
  BY <1>0, <1>12, <1>14, CheckFailView DEF CheckFail, WhoSends, Active, Others
<1>15. ASSUME NEW s \in Senders, SendStep(s) \/ SendFails(s) \/ NoteLost(s)
       PROVE  WhoSends'
  BY <1>12, <1>13, <1>14, <1>15 DEF SendStep, CheckReady, Send, SendFails, Note, NoteLost
<1>18. CASE ServerCrash
  BY <1>0, <1>18, CrashView DEF ServerCrash, WhoSends, Active
<1>19. CASE Recover
  BY <1>0, <1>19, RecoverView DEF Recover, WhoSends, Active, Others
<1>20. CASE Retry
  BY <1>0, <1>20, RetryView DEF Retry, Missed, WhoSends, Active, Others
<1>21. QED
  BY <1>1, <1>2, <1>3, <1>4, <1>5, <1>7, <1>8, <1>10, <1>11, <1>15,
     <1>18, <1>19, <1>20 DEF Next, Child

-----------------------------------------------------------------------------
\* A delivery is counted for its mail.
LEMMA DeliverView ==
  ASSUME ConstantsOK, TypeOK, NEW s \in Senders, Deliver(s)
  PROVE  /\ sent'[at[s].kind] = sent[at[s].kind] + 1
         /\ \A k \in Kinds : k # at[s].kind => sent'[k] = sent[k] /\ about'[k] = about[k]
         /\ about'[at[s].kind] = about[at[s].kind] \cup {at[s].of}
BY SenderFields DEF Deliver, TypeOK

LEMMA CountTypes ==
  ASSUME TypeOK
  PROVE  lost \in Nat /\ sent["ready"] \in Nat /\ sent["fail"] \in Nat
         /\ run \in Nat /\ overlaps \in Nat
BY DEF TypeOK, Kinds

\* A link is sent when none was, or after one that could not be noted.
LEMMA LinkStep ==
  ASSUME ConstantsOK, TypeOK, WhoSends, LinkOnce, TypeOK', [Next]_vars
  PROVE  LinkOnce'
<1> USE SenderTypes, CountTypes
<1>b. Active("boot") => at["boot"].kind = "ready" /\ at["child"].pc = "idle"
  BY DEF WhoSends, Active
<1>n. \A n \in Notifiers : Active(n) => at[n].kind = "fail"
  BY DEF WhoSends
\* Nothing is delivered, no link is lost on its way, none comes onto it.
<1>q. ASSUME sent'["ready"] = sent["ready"], "ready" \in noted' <=> "ready" \in noted,
             \/ lost' = lost /\ (LinkAt({"note"}) => LinkAt({"note"})')
             \/ lost' \in Nat /\ lost' >= lost + 1
             \/ lost' \in Nat /\ lost' >= lost /\ ~LinkAt({"note"}),
             LinkAt({"send", "note"})' => LinkAt({"send", "note"})
      PROVE  LinkOnce'
  BY <1>q DEF LinkOnce
<1>1. CASE UNCHANGED vars
  BY <1>1, <1>q DEF vars, LinkAt
<1>2. CASE Start
  BY <1>2, <1>q DEF Start, LinkAt
<1>3. CASE Begin
  BY <1>3, <1>q, BeginView DEF Begin, LinkAt, Others
<1>4. CASE ChildDone
  BY <1>4, <1>q, GotoView DEF ChildDone, LinkAt, Others
<1>5. CASE ChildLine
  BY <1>5, <1>q, GotoView DEF ChildLine, LinkAt, Others
<1>7. CASE ChildRaises
  BY <1>7, <1>q, FailView DEF ChildRaises, LinkAt, Others
<1>8. CASE ChildBreaks
  <2>1. lost' \in Nat /\ lost' >= lost /\ (at["child"].pc = "note" => lost' >= lost + 1)
    BY <1>8, ForgottenType DEF ChildBreaks
  <2>2. QED
    BY <1>8, <1>q, <1>b, <2>1, FailView DEF ChildBreaks, LinkAt, Others, Active
<1>10. ASSUME NEW n \in Notifiers, RunnerEnds(n)
       PROVE  LinkOnce'
  <2>1. UNCHANGED <<noted, sent, lost>> /\ at["child"].pc = "exit"
    BY <1>10 DEF RunnerEnds
  <2>2. QED
    BY <1>10, <1>q, <2>1, EndView DEF LinkAt
<1>11. ASSUME NEW n \in Notifiers, ChildKilled(n)
       PROVE  LinkOnce'
  <2>1. /\ lost' \in Nat /\ lost' >= lost /\ (at["child"].pc = "note" => lost' >= lost + 1)
        /\ at["child"].pc # "idle"
    BY <1>11, ForgottenType DEF ChildKilled
  <2>2. LinkAt({"send", "note"})' => LinkAt({"send", "note"})
    BY <1>11, EndView DEF LinkAt
  <2>3. LinkAt({"note"}) => at["child"].pc = "note"
    BY <1>b, <2>1 DEF LinkAt, Active
  <2>4. UNCHANGED <<noted, sent>>
    BY <1>11 DEF ChildKilled
  <2>5. CASE at["child"].pc = "note"
    BY <1>q, <2>1, <2>2, <2>4, <2>5
  <2>6. CASE ~LinkAt({"note"})
    BY <1>q, <2>1, <2>2, <2>4, <2>6
  <2>7. QED
    BY <2>3, <2>5, <2>6
\* A sender leaves or goes on.
<1>12. ASSUME NEW s \in Senders, Leave(s), at[s].pc # "note"
       PROVE  /\ LinkAt({"note"}) => LinkAt({"note"})'
              /\ LinkAt({"send", "note"})' => LinkAt({"send", "note"})
  BY <1>12, LeaveView DEF LinkAt, Others
<1>13. ASSUME NEW s \in Senders, CheckReady(s)
       PROVE  LinkOnce'
  <2>1. CASE Leave(s)
    BY <1>12, <1>13, <1>q, <2>1 DEF CheckReady
  <2>2. CASE Goto(s, "send") /\ "ready" \notin noted
    <3>1. UNCHANGED <<noted, sent, lost>>
      BY <1>13 DEF CheckReady
    <3>2. LinkAt({"note"})' <=> LinkAt({"note"})
      BY <1>13, <2>2, GotoView DEF CheckReady, LinkAt, Others
    <3>3. QED
      BY <2>2, <3>1, <3>2 DEF LinkOnce
  <2>3. QED
    BY <1>13, <2>1, <2>2 DEF CheckReady, MailAlreadySent
<1>14. ASSUME NEW s \in Senders, CheckFail(s)
       PROVE  LinkOnce'
  <2>1. CASE Leave(s)
    BY <1>12, <1>14, <1>q, <2>1 DEF CheckFail
  <2>2. CASE at'[s].kind = "fail" /\ Others(s)
    BY <1>14, <1>q, <2>2 DEF CheckFail, LinkAt, Others
  <2>3. QED
    BY <1>14, <2>1, <2>2, CheckFailView
\* Who delivers a link is the only one.
<1>15. ASSUME NEW s \in Senders, at[s].pc = "send", at[s].kind = "ready"
       PROVE  "ready" \notin noted /\ sent["ready"] <= lost
  <2>1. s \in {"child", "boot"}
    BY <1>n, <1>15 DEF Active, Senders
  <2>2. LinkAt({"send", "note"}) /\ ~LinkAt({"note"})
    BY <1>b, <1>15, <2>1 DEF LinkAt, Active
  <2>3. QED
    BY <2>2 DEF LinkOnce
<1>16. ASSUME NEW s \in Senders, Send(s)
       PROVE  LinkOnce'
  <2>1. UNCHANGED <<noted, lost>> /\ Goto(s, "note") /\ Deliver(s) /\ at[s].pc = "send"
    BY <1>16 DEF Send
  <2>2. CASE at[s].kind = "ready"
    <3>1. "ready" \notin noted /\ sent["ready"] <= lost
      BY <1>15, <2>1, <2>2
    <3>2. s \in {"child", "boot"}
      BY <1>n, <2>1, <2>2 DEF Active, Senders
    <3>3. LinkAt({"note"})'
      BY <2>1, <2>2, <3>2, GotoView DEF LinkAt
    <3>4. sent'["ready"] = sent["ready"] + 1
      BY <2>1, <2>2, DeliverView
    <3>5. QED
      BY <2>1, <3>1, <3>3, <3>4 DEF LinkOnce
  <2>3. CASE at[s].kind = "fail"
    <3>1. sent'["ready"] = sent["ready"]
      BY <2>1, <2>3, DeliverView DEF Kinds
    <3>2. QED
      BY <1>q, <2>1, <2>3, <3>1, GotoView DEF LinkAt, Others
  <2>4. QED
    BY <2>2, <2>3, SenderFields DEF Kinds
<1>17. ASSUME NEW s \in Senders, SendFails(s)
       PROVE  LinkOnce'
  <2>1. Leave(s) /\ at[s].pc = "send" /\ noted' = noted \cup {"error"}
    BY <1>17 DEF SendFails
  <2>2. CASE UNCHANGED <<sent, about, lost>>
    BY <1>12, <1>q, <2>1, <2>2
  <2>3. CASE Deliver(s) /\ lost' = lost + 1 /\ at[s].kind = "ready"
    <3>1. "ready" \notin noted /\ sent["ready"] <= lost
      BY <1>15, <2>1, <2>3
    <3>2. sent'["ready"] = sent["ready"] + 1
      BY <2>3, DeliverView
    <3>3. QED
      BY <2>1, <2>3, <3>1, <3>2 DEF LinkOnce
  <2>4. CASE Deliver(s) /\ lost' = lost + 1 /\ at[s].kind = "fail"
    <3>1. sent'["ready"] = sent["ready"]
      BY <2>4, DeliverView DEF Kinds
    <3>2. QED
      BY <1>12, <1>q, <2>1, <2>4, <3>1
  <2>5. QED
    BY <1>17, <2>2, <2>3, <2>4, SenderFields DEF SendFails, Kinds
<1>22. ASSUME NEW s \in Senders, Note(s)
       PROVE  LinkOnce'
  <2>1. UNCHANGED <<sent, lost>> /\ Leave(s) /\ at[s].pc = "note" /\ noted' = noted \cup {at[s].kind}
    BY <1>22 DEF Note
  <2>2. CASE at[s].kind = "ready"
    <3>1. s \in {"child", "boot"}
      BY <1>n, <2>1, <2>2 DEF Active, Senders
    <3>2. ~LinkAt({"send", "note"})'
      BY <1>b, <2>1, <3>1, LeaveView DEF LinkAt, Others, Active
    <3>3. QED
      BY <2>1, <2>2, <3>2 DEF LinkOnce
  <2>3. CASE at[s].kind = "fail"
    BY <1>q, <2>1, <2>3, LeaveView DEF LinkAt, Others
  <2>4. QED
    BY <2>2, <2>3, SenderFields DEF Kinds
<1>23. ASSUME NEW s \in Senders, NoteLost(s)
       PROVE  LinkOnce'
  BY <1>q, <1>23, LeaveView DEF NoteLost, LinkAt, Others
<1>18. CASE ServerCrash
  <2>1. /\ lost' \in Nat /\ lost' >= lost
        /\ at["child"].pc = "note" \/ at["boot"].pc = "note" => lost' >= lost + 1
    BY <1>18, ForgottenType DEF ServerCrash
  <2>2. QED
    BY <1>18, <1>q, <2>1, CrashView DEF ServerCrash, LinkAt
<1>19. CASE Recover
  BY <1>19, <1>q, RecoverView DEF Recover, LinkAt, Others
<1>20. CASE Retry
  BY <1>20, <1>q, RetryView DEF Retry, LinkAt, Others
<1>21. QED
  BY <1>1, <1>2, <1>3, <1>4, <1>5, <1>7, <1>8, <1>10, <1>11, <1>12, <1>13, <1>14, <1>16,
     <1>17, <1>18, <1>19, <1>20, <1>22, <1>23 DEF Next, Child, SendStep

-----------------------------------------------------------------------------
\* Sets of which one has at most one element more, or one for one of the other.
LEMMA OneForOne ==
  ASSUME NEW U, NEW A \in SUBSET U, NEW B \in SUBSET U, IsFiniteSet(U)
  PROVE  /\ Cardinality(A) \in Nat /\ Cardinality(B) \in Nat
         /\ A \subseteq B => Cardinality(A) <= Cardinality(B)
         /\ \A y \in U : A \subseteq B \cup {y} => Cardinality(A) <= Cardinality(B) + 1
         /\ \A x \in B : A \subseteq B \ {x} => Cardinality(A) <= Cardinality(B) - 1
         /\ \A x \in B : \A y \in U :
              A \subseteq (B \ {x}) \cup {y} => Cardinality(A) <= Cardinality(B)
<1>1. IsFiniteSet(A) /\ IsFiniteSet(B)
  BY FS_Subset
<1>2. Cardinality(A) \in Nat /\ Cardinality(B) \in Nat
  BY <1>1, FS_CardinalityType
<1>3. A \subseteq B => Cardinality(A) <= Cardinality(B)
  BY <1>1, FS_Subset
<1>4. ASSUME NEW y \in U, A \subseteq B \cup {y}
      PROVE  Cardinality(A) <= Cardinality(B) + 1
  <2>1. IsFiniteSet(B \cup {y}) /\ Cardinality(B \cup {y}) \in {Cardinality(B), Cardinality(B) + 1}
    BY <1>1, FS_AddElement
  <2>2. Cardinality(A) <= Cardinality(B \cup {y})
    BY <1>4, <2>1, FS_Subset
  <2>3. QED
    BY <1>2, <2>1, <2>2
<1>5. ASSUME NEW x \in B
      PROVE  IsFiniteSet(B \ {x}) /\ Cardinality(B \ {x}) = Cardinality(B) - 1
  BY <1>1, <1>5, FS_RemoveElement
<1>6. ASSUME NEW x \in B, A \subseteq B \ {x}
      PROVE  Cardinality(A) <= Cardinality(B) - 1
  <2>1. Cardinality(A) <= Cardinality(B \ {x})
    BY <1>5, <1>6, FS_Subset
  <2>2. QED
    BY <1>5, <2>1
<1>7. ASSUME NEW x \in B, NEW y \in U, A \subseteq (B \ {x}) \cup {y}
      PROVE  Cardinality(A) <= Cardinality(B)
  <2>1. /\ IsFiniteSet((B \ {x}) \cup {y})
        /\ Cardinality((B \ {x}) \cup {y}) \in {Cardinality(B \ {x}), Cardinality(B \ {x}) + 1}
    BY <1>5, FS_AddElement
  <2>2. Cardinality(A) <= Cardinality((B \ {x}) \cup {y})
    BY <1>7, <2>1, FS_Subset
  <2>3. QED
    BY <1>2, <1>5, <2>1, <2>2
<1>8. QED
  BY <1>2, <1>3, <1>4, <1>6, <1>7

\* Who reports a failure, next, is who reported one, or comes for him.
LEMMA ReportersCount ==
  ASSUME ConstantsOK
  PROVE  LET C == Cardinality(Reporters)
             D == Cardinality(Reporters')
         IN  /\ C \in Nat /\ D \in Nat
             /\ Reporters' \subseteq Reporters => D <= C
             /\ \A y \in Senders :
                  Reporters' \subseteq Reporters \cup {y} => D <= C + 1
             /\ \A x \in Reporters : Reporters' \subseteq Reporters \ {x} => D <= C - 1
             /\ \A x \in Reporters : \A y \in Senders \cup {"recovery"} :
                  Reporters' \subseteq (Reporters \ {x}) \cup {y} => D <= C
<1> DEFINE U == Senders \cup {"recovery"}
<1>1. IsFiniteSet(U)
  BY SenderTypes, FS_AddElement
<1>2. Reporters \in SUBSET U /\ Reporters' \in SUBSET U
  BY DEF Reporters, By
<1>3. \A y \in Senders : y \in U
  OBVIOUS
<1> HIDE DEF U
<1>4. QED
  BY <1>1, <1>2, <1>3, OneForOne DEF U

\* A failure is reported by one who counts among the reporters, and no more then.
LEMMA FailStep ==
  ASSUME ConstantsOK, TypeOK, WhoSends, FailOnce, FailNoted, TypeOK', [Next]_vars
  PROVE  FailOnce'
<1> USE SenderTypes, CountTypes
<1> DEFINE C == Cardinality(Reporters)
           D == Cardinality(Reporters')
<1>a. /\ lost' \in Nat /\ sent'["fail"] \in Nat /\ overlaps' \in Nat
      /\ sent["fail"] + C <= 1 + overlaps + lost
  BY DEF FailOnce, TypeOK, Kinds
<1>q. ASSUME sent'["fail"] = sent["fail"], overlaps' >= overlaps, lost' >= lost,
             \/ Reporters' \subseteq Reporters
             \/ \E y \in Senders : /\ Reporters' \subseteq Reporters \cup {y}
                                   /\ 1 + overlaps' + lost' >= 1 + overlaps + lost + 1
             \/ \E x \in Reporters : \E y \in Senders \cup {"recovery"} :
                  Reporters' \subseteq (Reporters \ {x}) \cup {y}
      PROVE  FailOnce'
  <2> HIDE DEF C, D
  <2>1. C \in Nat /\ D \in Nat
    BY ReportersCount DEF C, D
  <2>2. ASSUME Reporters' \subseteq Reporters
        PROVE  D <= C
    BY <2>2, ReportersCount DEF C, D
  <2>3. ASSUME NEW y \in Senders, Reporters' \subseteq Reporters \cup {y}
        PROVE  D <= C + 1
    BY <2>3, ReportersCount DEF C, D
  <2>4. ASSUME NEW x \in Reporters, NEW y \in Senders \cup {"recovery"},
               Reporters' \subseteq (Reporters \ {x}) \cup {y}
        PROVE  D <= C
    BY <2>4, ReportersCount DEF C, D
  <2>5. D <= C \/ (D <= C + 1 /\ 1 + overlaps' + lost' >= 1 + overlaps + lost + 1)
    BY <1>q, <2>2, <2>3, <2>4
  <2>6. sent'["fail"] + D <= 1 + overlaps' + lost'
    BY <1>a, <1>q, <2>1, <2>5
  <2>7. QED
    BY <2>6 DEF FailOnce, D
<1>1. CASE UNCHANGED vars
  <2>1. Reporters' = Reporters
    BY <1>1 DEF vars, Reporters, By, Active
  <2>2. QED
    BY <1>1, <1>q, <2>1 DEF vars
<1>2. CASE Start
  <2>1. Reporters' \subseteq Reporters
    BY <1>2 DEF Start, Reporters, By, Active
  <2>2. QED
    BY <1>2, <1>q, <2>1 DEF Start
<1>3. CASE Begin
  <2>1. /\ UNCHANGED <<noted, sent, lost>> /\ at["child"].pc = "idle" /\ up # "recover"
        /\ status' = "running" /\ Others("child") /\ up' = up
        /\ at'["child"].pc = "work" /\ at'["child"].kind = "ready"
    BY <1>3, BeginView DEF Begin
  <2>2. CASE \E n \in Notifiers : at[n].pc # "idle"
    <3>1. Reporters' \subseteq Reporters \cup {"child"}
      BY <2>1 DEF Reporters, By, Active, Others
    <3>2. overlaps' = overlaps + 1
      BY <1>3, <2>2 DEF Begin
    <3>3. QED
      BY <1>q, <2>1, <3>1, <3>2
  <2>3. CASE ~\E n \in Notifiers : at[n].pc # "idle"
    <3>1. overlaps' = overlaps
      BY <1>3, <2>3 DEF Begin
    <3>2. CASE "fail" \in noted
      <4>1. Reporters' \subseteq Reporters
        BY <2>1, <3>2 DEF Reporters, By, Others
      <4>2. QED
        BY <1>q, <2>1, <3>1, <4>1
    \* Nobody is at work, so what was delivered is noted or lost.
    <3>3. CASE "fail" \notin noted
      <4>1. \A s \in Senders \ {"boot"} : at[s].pc = "idle"
        BY <2>1, <2>3 DEF Senders
      <4>2. Noting = {} /\ Reporters = {}
        BY <2>1, <3>3, <4>1 DEF Noting, Reporters, By, Active, WhoSends
      <4>3. Cardinality(Noting) = 0 /\ Cardinality(Reporters) = 0
        BY <4>2, FS_EmptySet
      <4>4. sent["fail"] <= lost
        BY <3>3, <4>3 DEF FailNoted
      <4>5. Reporters' \subseteq Reporters \cup {"child"}
        BY <2>1 DEF Reporters, By, Active, Others
      <4> HIDE DEF C, D
      <4>6. D \in Nat /\ D <= 1
        BY <4>3, <4>5, ReportersCount DEF C, D
      <4>7. sent'["fail"] + D <= 1 + overlaps' + lost'
        BY <2>1, <3>1, <4>4, <4>6
      <4>8. QED
        BY <4>7 DEF FailOnce, D
    <3>4. QED
      BY <3>2, <3>3
  <2>4. QED
    BY <2>2, <2>3
\* The subprocess goes on.
<1>4. ASSUME Others("child"), at["child"].pc # "idle", at'["child"].pc # "idle",
             at["child"].pc # "note" \/ at["child"].kind = "ready",
             at'["child"].pc \notin {"send", "note"},
             "fail" \in noted' <=> "fail" \in noted, up' = up,
             status' # "running", UNCHANGED <<overlaps, sent>>, lost' >= lost
      PROVE  FailOnce'
  <2>1. Reporters' \subseteq Reporters
    BY <1>4 DEF Reporters, By, Active, Others
  <2>2. QED
    BY <1>4, <1>q, <2>1
<1>5. CASE ChildDone
  BY <1>4, <1>5, GotoView DEF ChildDone
<1>6. CASE ChildLine
  <2>1. at["child"].kind = "ready" /\ status # "running"
    BY <1>6 DEF ChildLine, WhoSends, Active
  <2>2. QED
    BY <1>4, <1>6, <2>1, GotoView DEF ChildLine
<1>7. CASE ChildRaises
  BY <1>4, <1>7, FailView DEF ChildRaises
<1>8. CASE ChildBreaks
  <2>1. lost' >= lost
    BY <1>8, ForgottenType DEF ChildBreaks
  <2>2. QED
    BY <1>4, <1>8, <2>1, FailView DEF ChildBreaks
<1>9. ASSUME NEW n \in Notifiers, RunnerEnds(n) \/ ChildKilled(n), "fail" \in noted
      PROVE  Reporters' \subseteq Reporters
  BY <1>9, EndView DEF Reporters, By
<1>10. ASSUME NEW n \in Notifiers, RunnerEnds(n) \/ ChildKilled(n), "fail" \notin noted,
              up # "recover"
       PROVE  Reporters' \subseteq (Reporters \ {"child"}) \cup {n}
  BY <1>10, EndView DEF Reporters, By, Active
<1>11. ASSUME NEW n \in Notifiers, RunnerEnds(n) \/ ChildKilled(n)
       PROVE  FailOnce'
  <2>1. /\ up # "recover" /\ at["child"].pc # "idle" /\ lost' >= lost
        /\ at["child"].pc = "note" => lost' >= lost + 1
    BY <1>11, ForgottenType DEF RunnerEnds, ChildKilled, WhoSends, Active
  <2>2. UNCHANGED <<overlaps, sent>>
    BY <1>11, EndView
  <2>3. CASE "fail" \in noted
    BY <1>9, <1>11, <1>q, <2>1, <2>2, <2>3
  <2>4. CASE "fail" \notin noted /\ at["child"].pc = "note"
    <3>1. Reporters' \subseteq Reporters \cup {n}
      BY <1>10, <1>11, <2>1, <2>4
    <3>2. 1 + overlaps' + lost' >= 1 + overlaps + lost + 1
      BY <1>a, <2>1, <2>2, <2>4
    <3>3. QED
      BY <1>q, <2>1, <2>2, <3>1, <3>2
  <2>5. CASE "fail" \notin noted /\ at["child"].pc # "note"
    <3>1. "child" \in Reporters
      BY <2>1, <2>5 DEF Reporters, By, Active
    <3>2. Reporters' \subseteq (Reporters \ {"child"}) \cup {n}
      BY <1>10, <1>11, <2>1, <2>5
    <3>3. QED
      BY <1>q, <2>1, <2>2, <3>1, <3>2
  <2>6. QED
    BY <2>3, <2>4, <2>5
\* A sender leaves who has no failure to note.
<1>12. ASSUME NEW s \in Senders, Leave(s), at[s].pc # "idle",
              at[s].pc # "note" \/ at[s].kind = "ready",
              "fail" \in noted' <=> "fail" \in noted, UNCHANGED status
       PROVE  Reporters' \subseteq Reporters
  BY <1>12, LeaveView DEF Reporters, By, Active, Others
<1>13. ASSUME NEW s \in Senders, CheckReady(s)
       PROVE  FailOnce'
  <2>1. UNCHANGED <<status, noted, overlaps, sent, lost>> /\ at[s].pc = "check" /\ at[s].kind = "ready"
    BY <1>13 DEF CheckReady
  <2>2. CASE Leave(s)
    BY <1>12, <1>q, <2>1, <2>2
  <2>3. CASE Goto(s, "send")
    <3>1. Reporters' \subseteq Reporters
      BY <2>1, <2>3, GotoView DEF Reporters, By, Active, Others
    <3>2. QED
      BY <1>q, <2>1, <3>1
  <2>4. QED
    BY <1>13, <2>2, <2>3 DEF CheckReady
<1>14. ASSUME NEW s \in Senders, CheckFail(s)
       PROVE  FailOnce'
  <2>1. UNCHANGED <<status, noted, overlaps, sent, lost>> /\ at[s].pc = "check"
    BY <1>14 DEF CheckFail
  <2>2. CASE Leave(s)
    BY <1>12, <1>q, <2>1, <2>2
  <2>3. CASE "fail" \notin noted /\ at'[s].pc = "send" /\ Others(s) /\ up' = up
    <3>1. Reporters' \subseteq Reporters
      BY <2>1, <2>3 DEF Reporters, By, Active, Others
    <3>2. QED
      BY <1>q, <2>1, <3>1
  <2>4. QED
    BY <1>14, <2>2, <2>3, CheckFailView
<1>15. \A s \in Senders : Active(s) /\ at[s].kind = "fail" => s # "boot"
  BY DEF WhoSends
<1>16. ASSUME NEW s \in Senders, Send(s)
       PROVE  FailOnce'
  <2>1. /\ UNCHANGED <<status, noted, overlaps, lost>> /\ at[s].pc = "send"
        /\ Goto(s, "note") /\ Deliver(s)
    BY <1>16 DEF Send
  <2>2. CASE at[s].kind = "ready"
    <3>1. Reporters' \subseteq Reporters
      BY <2>1, <2>2, GotoView DEF Reporters, By, Active, Others
    <3>2. sent'["fail"] = sent["fail"]
      BY <2>1, <2>2, DeliverView DEF Kinds
    <3>3. QED
      BY <1>q, <2>1, <3>1, <3>2
  <2>3. CASE at[s].kind = "fail"
    <3>1. s \in Reporters
      BY <1>15, <2>1, <2>3 DEF Reporters, By, Active
    <3>2. Reporters' \subseteq Reporters \ {s}
      BY <2>1, <2>3, GotoView DEF Reporters, By, Active, Others
    <3>3. sent'["fail"] = sent["fail"] + 1
      BY <2>1, <2>3, DeliverView
    <3> HIDE DEF C, D
    <3>4. C \in Nat /\ D \in Nat /\ D <= C - 1
      BY <3>1, <3>2, ReportersCount DEF C, D
    <3>5. sent'["fail"] + D <= 1 + overlaps' + lost'
      BY <1>a, <2>1, <3>3, <3>4
    <3>6. QED
      BY <3>5 DEF FailOnce, D
  <2>4. QED
    BY <2>2, <2>3, SenderFields DEF Kinds
<1>17. ASSUME NEW s \in Senders, SendFails(s)
       PROVE  FailOnce'
  <2>1. Leave(s) /\ at[s].pc = "send" /\ noted' = noted \cup {"error"} /\ UNCHANGED <<status, overlaps>>
    BY <1>17 DEF SendFails
  <2>2. Reporters' \subseteq Reporters
    BY <1>12, <2>1
  <2>3. CASE UNCHANGED <<sent, about, lost>>
    BY <1>q, <2>1, <2>2, <2>3
  <2>4. CASE Deliver(s) /\ lost' = lost + 1
    <3>1. sent'["fail"] <= sent["fail"] + 1
      BY <2>4, DeliverView, SenderFields DEF Kinds
    <3> HIDE DEF C, D
    <3>2. C \in Nat /\ D \in Nat /\ D <= C
      BY <2>2, ReportersCount DEF C, D
    <3>3. sent'["fail"] + D <= 1 + overlaps' + lost'
      BY <1>a, <2>1, <2>4, <3>1, <3>2
    <3>4. QED
      BY <3>3 DEF FailOnce, D
  <2>5. QED
    BY <1>17, <2>3, <2>4 DEF SendFails
<1>18. ASSUME NEW s \in Senders, Note(s)
       PROVE  FailOnce'
  <2>1. /\ UNCHANGED <<status, overlaps, sent, lost>> /\ Leave(s) /\ at[s].pc = "note"
        /\ noted' = noted \cup {at[s].kind}
    BY <1>18 DEF Note
  <2>2. CASE at[s].kind = "ready"
    BY <1>12, <1>q, <2>1, <2>2
  <2>3. CASE at[s].kind = "fail"
    <3>1. Reporters' \subseteq Reporters
      BY <1>15, <2>1, <2>3, LeaveView DEF Reporters, By, Active, Others
    <3>2. QED
      BY <1>q, <2>1, <3>1
  <2>4. QED
    BY <2>2, <2>3, SenderFields DEF Kinds
<1>19. ASSUME NEW s \in Senders, NoteLost(s)
       PROVE  FailOnce'
  <2>1. /\ UNCHANGED <<status, overlaps, sent, noted>> /\ Leave(s) /\ at[s].pc = "note"
        /\ lost' = lost + 1
    BY <1>19 DEF NoteLost
  <2>2. Reporters' \subseteq Reporters \cup {s}
    BY <2>1, LeaveView DEF Reporters, By, Active, Others
  <2>3. QED
    BY <1>q, <2>1, <2>2
<1>20. CASE ServerCrash
  <2>1. lost' >= lost /\ UNCHANGED <<status, overlaps, sent, noted>>
    BY <1>20, ForgottenType DEF ServerCrash
  <2>2. \A s \in Senders : at'[s].pc = "idle"
    BY <1>20, CrashView
  <2>3. CASE "fail" \in noted \/ status # "running"
    <3>1. Reporters' \subseteq Reporters
      BY <2>1, <2>2, <2>3 DEF Reporters, By, Active
    <3>2. QED
      BY <1>q, <2>1, <3>1
  <2>4. CASE "fail" \notin noted /\ status = "running"
    <3>1. Reporters' \subseteq {"recovery"}
      BY <2>1, <2>2, <2>4 DEF Reporters, By, Active
    <3>2. \E x \in Reporters : x \in {"child", "recovery"}
      BY <2>4 DEF Reporters, By, Active, WhoSends
    <3>3. QED
      BY <1>q, <2>1, <3>1, <3>2
  <2>5. QED
    BY <2>3, <2>4
<1>21. CASE Recover
  <2>1. up = "recover" /\ up' = "retry" /\ UNCHANGED <<overlaps, sent, noted, lost>>
    BY <1>21 DEF Recover
  <2>2. CASE "fail" \notin noted /\ status = "running"
    <3>1. PICK n \in Notifiers : Notify(n, at)
      BY <1>21, <2>2 DEF Recover
    <3>2. "recovery" \in Reporters
      BY <2>1, <2>2 DEF Reporters
    <3>3. Reporters' \subseteq (Reporters \ {"recovery"}) \cup {n}
      BY <2>1, <2>2, <3>1, RecoverView DEF Reporters, By, Active, Others
    <3>4. QED
      BY <1>q, <2>1, <3>2, <3>3
  <2>3. CASE "fail" \in noted \/ status # "running"
    <3>1. \A s \in Senders : at'[s].pc = "send" \/ status # "running" => at'[s] = at[s]
      BY <1>21, RecoverView DEF Recover, Others
    <3>2. Reporters' \subseteq Reporters
      BY <2>1, <2>3, <3>1 DEF Reporters, By, Active
    <3>3. QED
      BY <1>q, <2>1, <3>2
  <2>4. QED
    BY <2>2, <2>3
<1>22. CASE Retry
  <2>1. UNCHANGED <<status, overlaps, sent, noted, lost>> /\ up' # "recover"
    BY <1>22, RetryView DEF Retry
  <2>2. Others("boot") /\ at'["boot"].pc # "send"
    BY <1>22, RetryView DEF Retry, Others
  <2>3. Reporters' \subseteq Reporters
    BY <2>1, <2>2 DEF Reporters, By, Active, Others
  <2>4. QED
    BY <1>q, <2>1, <2>3
<1>23. QED
  BY <1>1, <1>2, <1>3, <1>5, <1>6, <1>7, <1>8, <1>11, <1>13, <1>14, <1>16, <1>17, <1>18,
     <1>19, <1>20, <1>21, <1>22 DEF Next, Child, SendStep

-----------------------------------------------------------------------------
\* A delivery that is to be noted is counted once, when it is lost, too.
LEMMA NotingCount ==
  ASSUME ConstantsOK
  PROVE  LET C == Cardinality(Noting)
             D == Cardinality(Noting')
         IN  /\ C \in Nat /\ D \in Nat
             /\ Noting \subseteq Noting' => C <= D
             /\ \A y \in Senders : Noting \subseteq Noting' \cup {y} => C <= D + 1
             /\ \A x \in Noting' : Noting \subseteq Noting' \ {x} => C <= D - 1
             /\ C <= Forgotten(Senders)
<1>1. IsFiniteSet(Senders)
  BY SenderTypes
<1>2. Noting \in SUBSET Senders /\ Noting' \in SUBSET Senders
  BY DEF Noting, By
<1>3. Cardinality(Noting) <= Forgotten(Senders)
  <2>1. Noting \subseteq {s \in Senders : at[s].pc = "note"}
    BY DEF Noting, By
  <2>2. IsFiniteSet({s \in Senders : at[s].pc = "note"})
    BY <1>1, FS_Subset
  <2>3. QED
    BY <2>1, <2>2, FS_Subset DEF Forgotten
<1>4. QED
  BY <1>1, <1>2, <1>3, OneForOne

\* A failure that was delivered is being noted until it is noted or lost.
LEMMA NotedStep ==
  ASSUME ConstantsOK, TypeOK, WhoSends, FailNoted, TypeOK', [Next]_vars
  PROVE  FailNoted'
<1> USE SenderTypes, CountTypes
<1> DEFINE C == Cardinality(Noting)
           D == Cardinality(Noting')
<1>a. /\ lost' \in Nat /\ sent'["fail"] \in Nat
      /\ "fail" \notin noted => sent["fail"] <= lost + C
  BY DEF FailNoted, TypeOK, Kinds
<1>b. C \in Nat /\ D \in Nat
  BY NotingCount
<1>q. ASSUME sent'["fail"] = sent["fail"], lost' >= lost, noted \subseteq noted',
             \/ "fail" \in noted'
             \/ Noting \subseteq Noting'
             \/ \E y \in Senders : Noting \subseteq Noting' \cup {y} /\ lost' >= lost + 1
      PROVE  FailNoted'
  <2> HIDE DEF C, D
  <2>1. ASSUME Noting \subseteq Noting'
        PROVE  C <= D
    BY <2>1, NotingCount DEF C, D
  <2>2. ASSUME NEW y \in Senders, Noting \subseteq Noting' \cup {y}
        PROVE  C <= D + 1
    BY <2>2, NotingCount DEF C, D
  <2>3. "fail" \notin noted' => C <= D \/ (C <= D + 1 /\ lost' >= lost + 1)
    BY <1>q, <2>1, <2>2
  <2>4. "fail" \notin noted' => sent'["fail"] <= lost' + D
    BY <1>a, <1>b, <1>q, <2>3
  <2>5. QED
    BY <2>4 DEF FailNoted, D
\* Who comes to the line of a failure, or goes on elsewhere, takes none with him.
<1>1. CASE UNCHANGED vars
  BY <1>1, <1>q DEF vars, Noting, By
<1>2. CASE Start
  BY <1>2, <1>q DEF Start, Noting, By
<1>3. CASE Begin
  BY <1>3, <1>q, BeginView DEF Begin, Noting, By, Others
<1>4. CASE ChildDone
  BY <1>4, <1>q, GotoView DEF ChildDone, Noting, By, Others
<1>5. CASE ChildLine
  BY <1>5, <1>q, GotoView DEF ChildLine, Noting, By, Others
<1>6. CASE ChildRaises
  BY <1>6, <1>q, FailView DEF ChildRaises, Noting, By, Others
<1>7. CASE ChildBreaks
  <2>1. lost' >= lost
    BY <1>7, ForgottenType DEF ChildBreaks
  <2>2. QED
    BY <1>7, <1>q, <2>1, FailView DEF ChildBreaks, Noting, By, Others
<1>8. ASSUME NEW n \in Notifiers, RunnerEnds(n)
      PROVE  FailNoted'
  <2>1. Noting \subseteq Noting'
    BY <1>8, EndView DEF RunnerEnds, Noting, By
  <2>2. QED
    BY <1>8, <1>q, <2>1, EndView DEF RunnerEnds
<1>9. ASSUME NEW n \in Notifiers, ChildKilled(n)
      PROVE  FailNoted'
  <2>1. /\ lost' >= lost /\ UNCHANGED <<noted, sent>>
        /\ at["child"].pc = "note" => lost' >= lost + 1
    BY <1>9, ForgottenType DEF ChildKilled
  <2>2. Noting \subseteq Noting' \cup {"child"}
    BY <1>9, EndView DEF Noting, By
  <2>3. at["child"].pc # "note" => Noting \subseteq Noting'
    BY <1>9, EndView DEF Noting, By
  <2>4. QED
    BY <1>q, <2>1, <2>2, <2>3
<1>10. ASSUME NEW s \in Senders, CheckReady(s)
       PROVE  FailNoted'
  <2>1. UNCHANGED <<noted, sent, lost>> /\ at[s].pc = "check" /\ Others(s)
    BY <1>10, LeaveView, GotoView DEF CheckReady
  <2>2. QED
    BY <1>q, <2>1 DEF Noting, By, Others
<1>11. ASSUME NEW s \in Senders, CheckFail(s)
       PROVE  FailNoted'
  <2>1. UNCHANGED <<noted, sent, lost>> /\ at[s].pc = "check" /\ Others(s)
    BY <1>11, LeaveView, CheckFailView DEF CheckFail
  <2>2. QED
    BY <1>q, <2>1 DEF Noting, By, Others
<1>12. ASSUME NEW s \in Senders, Send(s)
       PROVE  FailNoted'
  <2>1. /\ UNCHANGED <<noted, lost>> /\ at[s].pc = "send" /\ Deliver(s) /\ Others(s)
        /\ at'[s].pc = "note" /\ at'[s].kind = at[s].kind
    BY <1>12, GotoView DEF Send
  <2>2. Noting \subseteq Noting'
    BY <2>1 DEF Noting, By, Others
  <2>3. CASE at[s].kind = "ready"
    <3>1. sent'["fail"] = sent["fail"]
      BY <2>1, <2>3, DeliverView DEF Kinds
    <3>2. QED
      BY <1>q, <2>1, <2>2, <3>1
  <2>4. CASE at[s].kind = "fail"
    <3>1. s \in Noting' /\ Noting \subseteq Noting' \ {s}
      BY <2>1, <2>2, <2>4 DEF Noting, By
    <3>2. sent'["fail"] = sent["fail"] + 1
      BY <2>1, <2>4, DeliverView
    <3> HIDE DEF C, D
    <3>3. C <= D - 1
      BY <3>1, NotingCount DEF C, D
    <3>4. "fail" \notin noted' => sent'["fail"] <= lost' + D
      BY <1>a, <1>b, <2>1, <3>2, <3>3
    <3>5. QED
      BY <3>4 DEF FailNoted, D
  <2>5. QED
    BY <2>3, <2>4, SenderFields DEF Kinds
<1>13. ASSUME NEW s \in Senders, SendFails(s)
       PROVE  FailNoted'
  <2>1. /\ Others(s) /\ at[s].pc = "send" /\ noted' = noted \cup {"error"}
    BY <1>13, LeaveView DEF SendFails
  <2>2. Noting \subseteq Noting'
    BY <2>1 DEF Noting, By, Others
  <2>3. CASE UNCHANGED <<sent, about, lost>>
    BY <1>q, <2>1, <2>2, <2>3
  <2>4. CASE Deliver(s) /\ lost' = lost + 1
    <3>1. sent'["fail"] <= sent["fail"] + 1
      BY <2>4, DeliverView, SenderFields DEF Kinds
    <3> HIDE DEF C, D
    <3>2. C <= D
      BY <2>2, NotingCount DEF C, D
    <3>3. "fail" \notin noted' => sent'["fail"] <= lost' + D
      BY <1>a, <1>b, <2>1, <2>4, <3>1, <3>2
    <3>4. QED
      BY <3>3 DEF FailNoted, D
  <2>5. QED
    BY <1>13, <2>3, <2>4 DEF SendFails
<1>14. ASSUME NEW s \in Senders, Note(s)
       PROVE  FailNoted'
  <2>1. /\ UNCHANGED <<sent, lost>> /\ Others(s) /\ noted' = noted \cup {at[s].kind}
    BY <1>14, LeaveView DEF Note
  <2>2. CASE at[s].kind = "ready"
    BY <1>q, <2>1, <2>2 DEF Noting, By, Others
  <2>3. CASE at[s].kind = "fail"
    BY <1>q, <2>1, <2>3
  <2>4. QED
    BY <2>2, <2>3, SenderFields DEF Kinds
<1>15. ASSUME NEW s \in Senders, NoteLost(s)
       PROVE  FailNoted'
  <2>1. UNCHANGED <<sent, noted>> /\ Others(s) /\ lost' = lost + 1
    BY <1>15, LeaveView DEF NoteLost
  <2>2. Noting \subseteq Noting' \cup {s}
    BY <2>1 DEF Noting, By, Others
  <2>3. QED
    BY <1>q, <2>1, <2>2
<1>16. CASE ServerCrash
  <2>1. UNCHANGED <<sent, noted>> /\ lost' = lost + Forgotten(Senders)
    BY <1>16 DEF ServerCrash
  <2> HIDE DEF C, D
  <2>2. Forgotten(Senders) \in Nat /\ C <= Forgotten(Senders)
    BY ForgottenType, NotingCount DEF C
  <2>3. "fail" \notin noted' => sent'["fail"] <= lost' + D
    BY <1>a, <1>b, <2>1, <2>2
  <2>4. QED
    BY <2>3 DEF FailNoted, D
<1>17. CASE Recover
  <2>1. UNCHANGED <<sent, noted, lost>>
    BY <1>17 DEF Recover
  <2>2. CASE status = "running"
    <3>1. PICK n \in Notifiers : Notify(n, at)
      BY <1>17, <2>2 DEF Recover
    <3>2. Noting \subseteq Noting'
      BY <3>1, RecoverView DEF Noting, By, Others
    <3>3. QED
      BY <1>q, <2>1, <3>2
  <2>3. CASE status # "running"
    BY <1>17, <1>q, <2>1, <2>3 DEF Recover, Noting, By
  <2>4. QED
    BY <2>2, <2>3
<1>18. CASE Retry
  <2>1. UNCHANGED <<sent, noted, lost>>
    BY <1>18 DEF Retry
  <2>2. CASE Missed
    <3>1. Others("boot") /\ at["boot"].pc = "idle"
      BY <1>18, <2>2, RetryView DEF Retry
    <3>2. QED
      BY <1>q, <2>1, <3>1 DEF Noting, By, Others
  <2>3. CASE ~Missed
    BY <1>18, <1>q, <2>1, <2>3 DEF Retry, Noting, By
  <2>4. QED
    BY <2>2, <2>3
<1>19. QED
  BY <1>1, <1>2, <1>3, <1>4, <1>5, <1>6, <1>7, <1>8, <1>9, <1>10, <1>11, <1>12, <1>13,
     <1>14, <1>15, <1>16, <1>17, <1>18 DEF Next, Child, SendStep

-----------------------------------------------------------------------------
\* Where the runs come from that are reported.
ReadyOf(s) == at[s].kind = "ready" /\ at[s].pc \in {"line", "check", "send"}
FailOf(s) == at[s].kind = "fail" /\ at[s].pc = "send"

LEMMA RunsMembers ==
  /\ \A r : r \in ReadyRuns <=> \/ r \in about["ready"]
                                \/ \E s \in Senders : ReadyOf(s) /\ at[s].of = r
  /\ \A r : r \in FailRuns <=> \/ r \in about["fail"]
                               \/ \E s \in Senders : FailOf(s) /\ at[s].of = r
  /\ \A r : r \in ReadyRuns' <=> \/ r \in about'["ready"]
                                 \/ \E s \in Senders : ReadyOf(s)' /\ at'[s].of = r
  /\ \A r : r \in FailRuns' <=> \/ r \in about'["fail"]
                                \/ \E s \in Senders : FailOf(s)' /\ at'[s].of = r
BY DEF ReadyRuns, FailRuns, By, ReadyOf, FailOf

\* A delivery is about a run that was going to be reported.
LEMMA DeliverRuns ==
  ASSUME ConstantsOK, TypeOK, NEW s \in Senders, Deliver(s), at[s].pc = "send", Others(s),
         at'[s].pc \in {"note", "exit", "idle"}
  PROVE  ReadyRuns' \subseteq ReadyRuns /\ FailRuns' \subseteq FailRuns
<1>1. CASE at[s].kind = "ready"
  <2>1. about'["fail"] = about["fail"] /\ about'["ready"] = about["ready"] \cup {at[s].of}
    BY <1>1, DeliverView DEF Kinds
  <2>2. ReadyOf(s)
    BY <1>1 DEF ReadyOf
  <2>3. QED
    BY <2>1, <2>2, RunsMembers DEF ReadyOf, FailOf, Others
<1>2. CASE at[s].kind = "fail"
  <2>1. about'["ready"] = about["ready"] /\ about'["fail"] = about["fail"] \cup {at[s].of}
    BY <1>2, DeliverView DEF Kinds
  <2>2. FailOf(s)
    BY <1>2 DEF FailOf
  <2>3. QED
    BY <2>1, <2>2, RunsMembers DEF ReadyOf, FailOf, Others
<1>3. QED
  BY <1>1, <1>2, SenderFields DEF Kinds

\* A sender that leaves reports no more runs.
LEMMA LeaveRuns ==
  ASSUME ConstantsOK, TypeOK, NEW s \in Senders, Leave(s), UNCHANGED about
  PROVE  ReadyRuns' \subseteq ReadyRuns /\ FailRuns' \subseteq FailRuns
BY LeaveView, RunsMembers DEF ReadyOf, FailOf, Others

\* No run comes to both mails but a broken one.
LEMMA RunsStep ==
  ASSUME ConstantsOK, TypeOK, WhoSends, RunsApart, [Next]_vars
  PROVE  RunsApart'
<1> USE SenderTypes, CountTypes
<1> DEFINE Fewer == ReadyRuns' \subseteq ReadyRuns /\ FailRuns' \subseteq FailRuns
<1>q. ASSUME Fewer, run' = run, broken \subseteq broken',
             \/ status' \in {status, "queued"}
             \/ status' = "failed" /\ (status = "running" \/ run \in broken')
      PROVE  RunsApart'
  BY <1>q DEF RunsApart
<1>1. CASE UNCHANGED vars
  <2>1. Fewer
    BY <1>1, RunsMembers DEF vars, ReadyOf, FailOf
  <2>2. QED
    BY <1>1, <1>q, <2>1 DEF vars
<1>2. CASE Start
  <2>1. Fewer
    BY <1>2, RunsMembers DEF Start, ReadyOf, FailOf
  <2>2. QED
    BY <1>2, <1>q, <2>1 DEF Start
<1>3. CASE Begin
  <2>1. Fewer
    BY <1>3, BeginView, RunsMembers DEF Begin, ReadyOf, FailOf, Others
  <2>2. run' = run + 1 /\ status' = "running" /\ broken' = broken
    BY <1>3 DEF Begin
  <2>3. \A r \in ReadyRuns' \cup FailRuns' : r \in 1..run
    BY <2>1 DEF RunsApart
  <2>4. QED
    BY <2>1, <2>2, <2>3 DEF RunsApart
<1>4. CASE ChildDone
  <2>1. /\ status = "running" /\ at["child"].of = run /\ run > 0
        /\ status' = "done" /\ UNCHANGED <<run, about, broken>>
    BY <1>4 DEF ChildDone, WhoSends, Active
  <2>2. /\ at'["child"].pc = "line" /\ at'["child"].of = run /\ Others("child")
    BY <1>4, <2>1, GotoView DEF ChildDone
  <2>3. ReadyRuns' \subseteq ReadyRuns \cup {run} /\ FailRuns' \subseteq FailRuns
    BY <2>1, <2>2, RunsMembers DEF ReadyOf, FailOf, Others
  <2>4. QED
    BY <2>1, <2>3 DEF RunsApart
<1>5. CASE ChildLine
  <2>1. Fewer
    BY <1>5, GotoView, RunsMembers DEF ChildLine, ReadyOf, FailOf, Others
  <2>2. QED
    BY <1>5, <1>q, <2>1 DEF ChildLine
<1>6. ASSUME FailRun, UNCHANGED about
      PROVE  Fewer
  BY <1>6, FailView, RunsMembers DEF ReadyOf, FailOf, Others
<1>7. CASE ChildRaises
  <2>1. status = "running" /\ status' = "failed" /\ UNCHANGED <<run, about, broken>>
    BY <1>7, FailView DEF ChildRaises, WhoSends
  <2>2. QED
    BY <1>6, <1>7, <1>q, <2>1 DEF ChildRaises
<1>8. CASE ChildBreaks
  <2>1. /\ status' = "failed" /\ UNCHANGED <<run, about>>
        /\ broken' = broken \cup {at["child"].of} /\ at["child"].of = run
    BY <1>8, FailView DEF ChildBreaks, WhoSends, Active
  <2>2. QED
    BY <1>6, <1>8, <1>q, <2>1 DEF ChildBreaks
<1>9. ASSUME NEW n \in Notifiers, RunnerEnds(n) \/ ChildKilled(n)
      PROVE  RunsApart'
  <2>1. Fewer
    BY <1>9, EndView, RunsMembers DEF ReadyOf, FailOf
  <2>2. UNCHANGED <<run, broken>> /\ \/ status' = status
                                     \/ status' = "failed" /\ status = "running"
    BY <1>9 DEF RunnerEnds, ChildKilled
  <2>3. QED
    BY <1>q, <2>1, <2>2
<1>10. ASSUME NEW s \in Senders, CheckReady(s)
       PROVE  RunsApart'
  <2>1. UNCHANGED <<status, run, about, broken>> /\ at[s].pc = "check" /\ at[s].kind = "ready"
    BY <1>10 DEF CheckReady
  <2>2. CASE Leave(s)
    BY <1>q, <2>1, <2>2, LeaveRuns
  <2>3. CASE Goto(s, "send")
    <3>1. Fewer
      BY <2>1, <2>3, GotoView, RunsMembers DEF ReadyOf, FailOf, Others
    <3>2. QED
      BY <1>q, <2>1, <3>1
  <2>4. QED
    BY <1>10, <2>2, <2>3 DEF CheckReady
<1>11. ASSUME NEW s \in Senders, CheckFail(s)
       PROVE  RunsApart'
  <2>1. UNCHANGED <<status, run, about, broken>> /\ at[s].pc = "check" /\ at[s].kind = "fail"
    BY <1>11 DEF CheckFail
  <2>2. CASE Leave(s)
    BY <1>q, <2>1, <2>2, LeaveRuns
  <2>3. CASE /\ status = "failed" /\ Others(s)
             /\ at'[s].pc = "send" /\ at'[s].kind = "fail" /\ at'[s].of = run
    <3>1. ReadyRuns' \subseteq ReadyRuns /\ FailRuns' \subseteq FailRuns \cup {run}
      BY <2>1, <2>3, RunsMembers DEF ReadyOf, FailOf, Others
    <3>2. run > 0
      BY <2>3 DEF WhoSends
    <3>3. QED
      BY <2>1, <2>3, <3>1, <3>2 DEF RunsApart
  <2>4. QED
    BY <1>11, <2>2, <2>3, CheckFailView
<1>12. ASSUME NEW s \in Senders, Send(s)
       PROVE  RunsApart'
  <2>1. Fewer
    BY <1>12, GotoView, DeliverRuns DEF Send
  <2>2. QED
    BY <1>12, <1>q, <2>1 DEF Send
<1>13. ASSUME NEW s \in Senders, SendFails(s)
       PROVE  RunsApart'
  <2>1. Leave(s) /\ at[s].pc = "send" /\ UNCHANGED <<status, run, broken>>
    BY <1>13 DEF SendFails
  <2>2. CASE UNCHANGED about
    BY <1>q, <2>1, <2>2, LeaveRuns
  <2>3. CASE Deliver(s)
    <3>1. Fewer
      BY <2>1, <2>3, LeaveView, DeliverRuns
    <3>2. QED
      BY <1>q, <2>1, <3>1
  <2>4. QED
    BY <1>13, <2>2, <2>3 DEF SendFails
<1>14. ASSUME NEW s \in Senders, Note(s) \/ NoteLost(s)
       PROVE  RunsApart'
  <2>1. Leave(s) /\ UNCHANGED <<status, run, about, broken>>
    BY <1>14 DEF Note, NoteLost
  <2>2. QED
    BY <1>q, <2>1, LeaveRuns
<1>15. CASE ServerCrash
  <2>1. Fewer
    BY <1>15, CrashView, RunsMembers DEF ServerCrash, ReadyOf, FailOf
  <2>2. QED
    BY <1>15, <1>q, <2>1 DEF ServerCrash
<1>16. CASE Recover
  <2>1. Fewer
    BY <1>16, RecoverView, RunsMembers DEF Recover, ReadyOf, FailOf, Others
  <2>2. QED
    BY <1>16, <1>q, <2>1 DEF Recover
<1>17. CASE Retry
  <2>1. UNCHANGED <<status, run, about, broken>>
    BY <1>17 DEF Retry
  <2>2. CASE Missed
    <3>1. status = "done" /\ run > 0
      BY <2>2 DEF Missed, WhoSends
    <3>2. ReadyRuns' \subseteq ReadyRuns \cup {run} /\ FailRuns' \subseteq FailRuns
      BY <1>17, <2>1, <2>2, RetryView, RunsMembers DEF ReadyOf, FailOf, Others
    <3>3. QED
      BY <2>1, <3>1, <3>2 DEF RunsApart
  <2>3. CASE ~Missed
    <3>1. Fewer
      BY <1>17, <2>1, <2>3, RunsMembers DEF Retry, ReadyOf, FailOf
    <3>2. QED
      BY <1>q, <2>1, <3>1
  <2>4. QED
    BY <2>2, <2>3
<1>18. QED
  BY <1>1, <1>2, <1>3, <1>4, <1>5, <1>7, <1>8, <1>9, <1>10, <1>11, <1>12, <1>13, <1>14,
     <1>15, <1>16, <1>17 DEF Next, Child, SendStep

-----------------------------------------------------------------------------
\* The invariant holds initially ...
LEMMA MailInit == ASSUME ConstantsOK PROVE Init => MailInv
<1> SUFFICES ASSUME Init PROVE MailInv
  OBVIOUS
<1> USE SenderTypes
<1>1. \A s \in Senders : at[s] = Idle /\ at[s].pc = "idle"
  BY DEF Init, Idle
<1>2. TypeOK
  <2>1. SendersOK
    BY IdleTypes DEF Init, SendersOK
  <2>2. MaxFaults \in 0..MaxFaults
    BY DEF ConstantsOK
  <2>3. QED
    BY <2>1, <2>2 DEF Init, TypeOK
<1>3. WhoSends
  BY <1>1 DEF Init, WhoSends, Active
<1>4. LinkOnce
  BY <1>1 DEF Init, LinkOnce, LinkAt, Kinds
<1>5. FailOnce
  <2>1. Reporters = {}
    BY <1>1 DEF Init, Reporters, By, Active
  <2>2. QED
    BY <2>1, FS_EmptySet DEF Init, FailOnce, Kinds
<1>6. FailNoted
  <2>1. Noting = {}
    BY <1>1 DEF Noting, By
  <2>2. QED
    BY <2>1, FS_EmptySet DEF Init, FailNoted, Kinds
<1>7. RunsApart
  <2>1. ReadyRuns = {} /\ FailRuns = {}
    BY <1>1 DEF Init, ReadyRuns, FailRuns, By, Kinds
  <2>2. QED
    BY <2>1 DEF Init, RunsApart
<1>8. QED
  BY <1>2, <1>3, <1>4, <1>5, <1>6, <1>7 DEF MailInv

\* ... and every step keeps it.
LEMMA MailStep == ASSUME ConstantsOK PROVE MailInv /\ [Next]_vars => MailInv'
BY TypeStep, WhoStep, LinkStep, FailStep, NotedStep, RunsStep DEF MailInv

\* What it is for.
LEMMA MailFacts ==
  ASSUME ConstantsOK, MailInv
  PROVE  ReadyRepeatedOnlyAfterLoss /\ FailureReportedOnce /\ NotBothMails
<1>1. ReadyRepeatedOnlyAfterLoss
  BY DEF MailInv, LinkOnce, ReadyRepeatedOnlyAfterLoss
<1>2. FailureReportedOnce
  <2>1. Cardinality(Reporters) \in Nat
    BY ReportersCount
  <2>2. QED
    BY <2>1, CountTypes DEF MailInv, FailOnce, FailureReportedOnce
<1>3. NotBothMails
  BY DEF MailInv, RunsApart, ReadyRuns, FailRuns, NotBothMails
<1>4. QED
  BY <1>1, <1>2, <1>3

\* The types of the senders, the log and the counters.
THEOREM TypeCorrect == ASSUME ConstantsOK PROVE Spec => []TypeOK
<1>1. Init => TypeOK
  BY MailInit DEF MailInv
<1>2. QED
  BY <1>1, TypeStep, PTL DEF Spec

\* The owner gets one link and of all failures one mail, but for deliveries that
\* could not be noted and runs that began beside a thread of an earlier one, and of
\* no run both, unless it failed after it was done: over the subprocess, its
\* runner, restarts and the startup handler.
THEOREM MailsAreRight ==
  ASSUME ConstantsOK
  PROVE  Spec => [](ReadyRepeatedOnlyAfterLoss /\ FailureReportedOnce /\ NotBothMails)
<1>1. Init => MailInv
  BY MailInit
<1>2. MailInv /\ [Next]_vars => MailInv'
  BY MailStep
<1>3. MailInv => ReadyRepeatedOnlyAfterLoss /\ FailureReportedOnce /\ NotBothMails
  BY MailFacts
<1>4. QED
  BY <1>1, <1>2, <1>3, PTL DEF Spec
=============================================================================
