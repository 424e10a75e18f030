--------------------------- MODULE ReminderProofs ---------------------------
(***************************************************************************)
(* Theorems about Reminders for any number of appointments, rules and      *)
(* sweeping workers, and any cap on attempts.                              *)
(***************************************************************************)
EXTENDS Reminders, TLAPS

\* A sweeper that is not idle holds a row that is 'sending', that it has just
\* cancelled, or that was deleted.
HeldInv ==
    \A s \in Sweepers :
        /\ pc[s] = "idle" <=> claimed[s] = Nothing
        /\ pc[s] # "idle" =>
            /\ claimed[s] \in Rows
            /\ status[claimed[s]] \in {"sending", "cancelled", "none"}
            /\ status[claimed[s]] = "cancelled" => pc[s] \in {"release", "recover"}
            /\ pc[s] = "release" => status[claimed[s]] # "sending"
            /\ attempts[claimed[s]] > 0
            /\ status[claimed[s]] = "none" => appt[ApptOf(claimed[s])] = "deleted"

\* A row that can still be claimed has attempts left.
AttemptsInv ==
    \A r \in Rows :
        /\ status[r] = "planned" => attempts[r] < MaxAttempts
        /\ status[r] = "none" /\ appt[ApptOf(r)] # "deleted" => attempts[r] = 0
        /\ appt[ApptOf(r)] = "deleted" => status[r] = "none"

\* An attempt about to record 'sent' has sent, and every other email a row that
\* is still in play has sent is accounted for by a slip.
SendingSent(s) == pc[s] = "finish" /\ goal[s] = "sent"
EmailInv ==
    /\ \A r \in Rows :
        /\ slips[r] <= attempts[r]
        /\ emails[r] <= attempts[r]
        /\ status[r] = "planned" => emails[r] <= slips[r]
        /\ status[r] = "none" /\ appt[ApptOf(r)] # "deleted" => emails[r] = 0
    /\ \A s \in Sweepers :
        /\ pc[s] \in {"check", "enqueue", "finish"} => slips[claimed[s]] < attempts[claimed[s]]
        /\ pc[s] # "idle" /\ ~SendingSent(s) => emails[claimed[s]] <= slips[claimed[s]]
        /\ SendingSent(s) => emails[claimed[s]] > 0

IInv ==
    /\ TypeOK
    /\ HeldInv
    /\ ExclusiveSweep
    /\ AttemptsInv
    /\ EmailInv
    /\ DuplicatesOnlyBySlips
    /\ StuckOnlyIfOrphaned

LEMMA InitInv == Init => IInv
<1> USE ReminderAssumption
<1> SUFFICES ASSUME Init PROVE IInv OBVIOUS
<1>1. TypeOK BY DEF Init, TypeOK, Terminal
<1>2. HeldInv /\ ExclusiveSweep BY DEF Init, HeldInv, ExclusiveSweep
<1>3. AttemptsInv /\ EmailInv BY DEF Init, AttemptsInv, EmailInv, SendingSent
<1>4. DuplicatesOnlyBySlips /\ StuckOnlyIfOrphaned
    BY DEF Init, DuplicatesOnlyBySlips, StuckOnlyIfOrphaned
<1> QED BY <1>1, <1>2, <1>3, <1>4 DEF IInv

\* One lemma per action: it preserves the inductive invariant.

LEMMA BookInv == ASSUME IInv, NEW a \in Appts, Book(a) PROVE IInv'
<1> USE ReminderAssumption DEF Book, rows, sweep, ghosts, IInv, TypeOK, Terminal
<1>1. TypeOK' BY DEF HeldInv, AttemptsInv, EmailInv, SendingSent
<1>2. HeldInv' BY DEF HeldInv, AttemptsInv
<1>3. ExclusiveSweep' BY DEF ExclusiveSweep, HeldInv
<1>4. AttemptsInv' BY DEF AttemptsInv, HeldInv
<1>5. EmailInv' BY DEF EmailInv, SendingSent, HeldInv, ExclusiveSweep, AttemptsInv
<1>6. DuplicatesOnlyBySlips' BY DEF DuplicatesOnlyBySlips, EmailInv, SendingSent, HeldInv
<1>7. StuckOnlyIfOrphaned' BY DEF StuckOnlyIfOrphaned, HeldInv
<1> QED BY <1>1, <1>2, <1>3, <1>4, <1>5, <1>6, <1>7

LEMMA ReplanInv == ASSUME IInv, NEW a \in Appts, Replan(a) PROVE IInv'
<1> USE ReminderAssumption DEF Replan, rows, sweep, ghosts, IInv, TypeOK, Terminal
<1>1. TypeOK' BY DEF HeldInv, AttemptsInv, EmailInv, SendingSent
<1>2. HeldInv' BY DEF HeldInv, AttemptsInv
<1>3. ExclusiveSweep' BY DEF ExclusiveSweep, HeldInv
<1>4. AttemptsInv' BY DEF AttemptsInv, HeldInv
<1>5. EmailInv' BY DEF EmailInv, SendingSent, HeldInv, ExclusiveSweep, AttemptsInv
<1>6. DuplicatesOnlyBySlips' BY DEF DuplicatesOnlyBySlips, EmailInv, SendingSent, HeldInv
<1>7. StuckOnlyIfOrphaned' BY DEF StuckOnlyIfOrphaned, HeldInv
<1> QED BY <1>1, <1>2, <1>3, <1>4, <1>5, <1>6, <1>7

\* The row of an appointment and a rule is a row, of that appointment.
LEMMA RowOf == ASSUME NEW a \in Appts, NEW k \in Rules
               PROVE  \E r \in Rows : r = <<a, k>> /\ ApptOf(r) = a
<1>1. <<a, k>> \in Rows BY DEF Rows
<1>2. ApptOf(<<a, k>>) = a BY DEF ApptOf
<1> QED BY <1>1, <1>2

LEMMA PlanRuleInv == ASSUME IInv, NEW a \in Appts, NEW k \in Rules, PlanRule(a, k) PROVE IInv'
<1> USE ReminderAssumption DEF IInv, rows, sweep, ghosts
<1> PICK r \in Rows : r = <<a, k>> /\ ApptOf(r) = a BY RowOf
<1>1. /\ status' = status \/ status' = [status EXCEPT ![r] = "planned"]
      /\ status' # status => status[r] = "none" /\ appt[ApptOf(r)] # "deleted"
      /\ UNCHANGED <<appt, started, attempts, due, pc, claimed, goal, emails, slips, orphaned>>
      /\ toPlan' = [toPlan EXCEPT ![a] = @ \ {k}]
    BY DEF PlanRule, Unplanned
<1> USE <1>1 DEF TypeOK, Terminal
<1>2. TypeOK' OBVIOUS
<1>3. HeldInv' BY DEF HeldInv
<1>4. ExclusiveSweep' BY DEF ExclusiveSweep
<1>5. AttemptsInv' BY DEF AttemptsInv
<1>6. EmailInv' BY DEF EmailInv, SendingSent, AttemptsInv
<1>7. DuplicatesOnlyBySlips' BY DEF DuplicatesOnlyBySlips
<1>8. StuckOnlyIfOrphaned' BY DEF StuckOnlyIfOrphaned
<1> QED BY <1>2, <1>3, <1>4, <1>5, <1>6, <1>7, <1>8

LEMMA StopPlanningInv == ASSUME IInv, NEW a \in Appts, StopPlanning(a) PROVE IInv'
<1> USE ReminderAssumption DEF StopPlanning, rows, sweep, ghosts, IInv, TypeOK, Terminal
<1>1. TypeOK' BY DEF HeldInv, AttemptsInv, EmailInv, SendingSent
<1>2. HeldInv' BY DEF HeldInv, AttemptsInv
<1>3. ExclusiveSweep' BY DEF ExclusiveSweep, HeldInv
<1>4. AttemptsInv' BY DEF AttemptsInv, HeldInv
<1>5. EmailInv' BY DEF EmailInv, SendingSent, HeldInv, ExclusiveSweep, AttemptsInv
<1>6. DuplicatesOnlyBySlips' BY DEF DuplicatesOnlyBySlips, EmailInv, SendingSent, HeldInv
<1>7. StuckOnlyIfOrphaned' BY DEF StuckOnlyIfOrphaned, HeldInv
<1> QED BY <1>1, <1>2, <1>3, <1>4, <1>5, <1>6, <1>7

LEMMA BecomeDueInv == ASSUME IInv, NEW r \in Rows, BecomeDue(r) PROVE IInv'
<1> USE ReminderAssumption DEF BecomeDue, rows, sweep, ghosts, IInv, TypeOK, Terminal
<1>1. TypeOK' BY DEF HeldInv, AttemptsInv, EmailInv, SendingSent
<1>2. HeldInv' BY DEF HeldInv, AttemptsInv
<1>3. ExclusiveSweep' BY DEF ExclusiveSweep, HeldInv
<1>4. AttemptsInv' BY DEF AttemptsInv, HeldInv
<1>5. EmailInv' BY DEF EmailInv, SendingSent, HeldInv, ExclusiveSweep, AttemptsInv
<1>6. DuplicatesOnlyBySlips' BY DEF DuplicatesOnlyBySlips, EmailInv, SendingSent, HeldInv
<1>7. StuckOnlyIfOrphaned' BY DEF StuckOnlyIfOrphaned, HeldInv
<1> QED BY <1>1, <1>2, <1>3, <1>4, <1>5, <1>6, <1>7

LEMMA StartInv == ASSUME IInv, NEW a \in Appts, Start(a) PROVE IInv'
<1> USE ReminderAssumption DEF Start, rows, sweep, ghosts, IInv, TypeOK, Terminal
<1>1. TypeOK' BY DEF HeldInv, AttemptsInv, EmailInv, SendingSent
<1>2. HeldInv' BY DEF HeldInv, AttemptsInv
<1>3. ExclusiveSweep' BY DEF ExclusiveSweep, HeldInv
<1>4. AttemptsInv' BY DEF AttemptsInv, HeldInv
<1>5. EmailInv' BY DEF EmailInv, SendingSent, HeldInv, ExclusiveSweep, AttemptsInv
<1>6. DuplicatesOnlyBySlips' BY DEF DuplicatesOnlyBySlips, EmailInv, SendingSent, HeldInv
<1>7. StuckOnlyIfOrphaned' BY DEF StuckOnlyIfOrphaned, HeldInv
<1> QED BY <1>1, <1>2, <1>3, <1>4, <1>5, <1>6, <1>7

LEMMA CancelAppointmentInv == ASSUME IInv, NEW a \in Appts, CancelAppointment(a) PROVE IInv'
<1> USE ReminderAssumption DEF CancelAppointment, rows, sweep, ghosts, IInv, TypeOK, Terminal
<1>1. TypeOK' BY DEF HeldInv, AttemptsInv, EmailInv, SendingSent
<1>2. HeldInv' BY DEF HeldInv, AttemptsInv
<1>3. ExclusiveSweep' BY DEF ExclusiveSweep, HeldInv
<1>4. AttemptsInv' BY DEF AttemptsInv, HeldInv
<1>5. EmailInv' BY DEF EmailInv, SendingSent, HeldInv, ExclusiveSweep, AttemptsInv
<1>6. DuplicatesOnlyBySlips' BY DEF DuplicatesOnlyBySlips, EmailInv, SendingSent, HeldInv
<1>7. StuckOnlyIfOrphaned' BY DEF StuckOnlyIfOrphaned, HeldInv
<1> QED BY <1>1, <1>2, <1>3, <1>4, <1>5, <1>6, <1>7

LEMMA CancelRemindersInv == ASSUME IInv, NEW a \in Appts, CancelReminders(a) PROVE IInv'
<1> USE ReminderAssumption DEF CancelReminders, rows, sweep, ghosts, IInv, TypeOK, Terminal
<1>1. TypeOK' BY DEF HeldInv, AttemptsInv, EmailInv, SendingSent
<1>2. HeldInv' BY DEF HeldInv, AttemptsInv
<1>3. ExclusiveSweep' BY DEF ExclusiveSweep, HeldInv
<1>4. AttemptsInv' BY DEF AttemptsInv, HeldInv
<1>5. EmailInv' BY DEF EmailInv, SendingSent, HeldInv, ExclusiveSweep, AttemptsInv
<1>6. DuplicatesOnlyBySlips' BY DEF DuplicatesOnlyBySlips, EmailInv, SendingSent, HeldInv
<1>7. StuckOnlyIfOrphaned' BY DEF StuckOnlyIfOrphaned, HeldInv
<1> QED BY <1>1, <1>2, <1>3, <1>4, <1>5, <1>6, <1>7

LEMMA DeleteAppointmentInv == ASSUME IInv, NEW a \in Appts, DeleteAppointment(a) PROVE IInv'
<1> USE ReminderAssumption DEF DeleteAppointment, rows, sweep, ghosts, IInv, TypeOK, Terminal
<1>1. TypeOK' BY DEF HeldInv, AttemptsInv, EmailInv, SendingSent
<1>2. HeldInv' BY DEF HeldInv, AttemptsInv
<1>3. ExclusiveSweep' BY DEF ExclusiveSweep, HeldInv
<1>4. AttemptsInv' BY DEF AttemptsInv, HeldInv
<1>5. EmailInv' BY DEF EmailInv, SendingSent, HeldInv, ExclusiveSweep, AttemptsInv
<1>6. DuplicatesOnlyBySlips' BY DEF DuplicatesOnlyBySlips, EmailInv, SendingSent, HeldInv
<1>7. StuckOnlyIfOrphaned' BY DEF StuckOnlyIfOrphaned, HeldInv
<1> QED BY <1>1, <1>2, <1>3, <1>4, <1>5, <1>6, <1>7

LEMMA ClaimInv == ASSUME IInv, NEW s \in Sweepers, NEW r \in Rows, Claim(s, r) PROVE IInv'
<1> USE ReminderAssumption DEF Claim, Claimable, rows, sweep, ghosts, IInv, TypeOK, Terminal
<1>1. TypeOK' BY DEF HeldInv, AttemptsInv, EmailInv, SendingSent
<1>2. HeldInv' BY DEF HeldInv, Rows, AttemptsInv
<1>3. ExclusiveSweep' BY DEF ExclusiveSweep, HeldInv
<1>4. AttemptsInv' BY DEF AttemptsInv, HeldInv
<1>5. EmailInv' BY DEF EmailInv, SendingSent, HeldInv, ExclusiveSweep, AttemptsInv
<1>6. DuplicatesOnlyBySlips' BY DEF DuplicatesOnlyBySlips, EmailInv, SendingSent, HeldInv
<1>7. StuckOnlyIfOrphaned' BY DEF StuckOnlyIfOrphaned, HeldInv, Rows
<1> QED BY <1>1, <1>2, <1>3, <1>4, <1>5, <1>6, <1>7

LEMMA CheckInv == ASSUME IInv, NEW s \in Sweepers, Check(s) PROVE IInv'
<1> USE ReminderAssumption DEF Check, Goto, rows, sweep, ghosts, IInv, TypeOK, Terminal
<1>1. TypeOK' BY DEF HeldInv, AttemptsInv, EmailInv, SendingSent
<1>2. HeldInv' BY DEF HeldInv, AttemptsInv
<1>3. ExclusiveSweep' BY DEF ExclusiveSweep, HeldInv
<1>4. AttemptsInv' BY DEF AttemptsInv, HeldInv
<1>5. EmailInv' BY DEF EmailInv, SendingSent, HeldInv, ExclusiveSweep, AttemptsInv
<1>6. DuplicatesOnlyBySlips' BY DEF DuplicatesOnlyBySlips, EmailInv, SendingSent, HeldInv
<1>7. StuckOnlyIfOrphaned' BY DEF StuckOnlyIfOrphaned, HeldInv
<1> QED BY <1>1, <1>2, <1>3, <1>4, <1>5, <1>6, <1>7

LEMMA EnqueueEmailInv == ASSUME IInv, NEW s \in Sweepers, EnqueueEmail(s) PROVE IInv'
<1> USE ReminderAssumption DEF EnqueueEmail, Goto, rows, sweep, ghosts, IInv, TypeOK, Terminal
<1>1. TypeOK' BY DEF HeldInv, AttemptsInv, EmailInv, SendingSent
<1>2. HeldInv' BY DEF HeldInv, AttemptsInv
<1>3. ExclusiveSweep' BY DEF ExclusiveSweep, HeldInv
<1>4. AttemptsInv' BY DEF AttemptsInv, HeldInv
<1>5. EmailInv' BY DEF EmailInv, SendingSent, HeldInv, ExclusiveSweep, AttemptsInv
<1>6. DuplicatesOnlyBySlips' BY DEF DuplicatesOnlyBySlips, EmailInv, SendingSent, HeldInv
<1>7. StuckOnlyIfOrphaned' BY DEF StuckOnlyIfOrphaned, HeldInv
<1> QED BY <1>1, <1>2, <1>3, <1>4, <1>5, <1>6, <1>7

LEMMA FinishInv == ASSUME IInv, NEW s \in Sweepers, Finish(s) PROVE IInv'
<1> USE ReminderAssumption DEF Finish, Write, Done, Goto, rows, sweep, ghosts, IInv, TypeOK, Terminal
<1>1. TypeOK' BY DEF HeldInv, AttemptsInv, EmailInv, SendingSent
<1>2. HeldInv' BY DEF HeldInv, ExclusiveSweep, Rows
<1>3. ExclusiveSweep' BY DEF ExclusiveSweep, HeldInv
<1>4. AttemptsInv' BY DEF AttemptsInv, HeldInv
<1>5. EmailInv' BY DEF EmailInv, SendingSent, HeldInv, ExclusiveSweep, AttemptsInv
<1>6. DuplicatesOnlyBySlips' BY DEF DuplicatesOnlyBySlips, EmailInv, SendingSent, HeldInv
<1>7. StuckOnlyIfOrphaned' BY DEF StuckOnlyIfOrphaned, HeldInv
<1> QED BY <1>1, <1>2, <1>3, <1>4, <1>5, <1>6, <1>7

LEMMA FailInv == ASSUME IInv, NEW s \in Sweepers, Fail(s) PROVE IInv'
<1> USE ReminderAssumption DEF Fail, Goto, rows, sweep, ghosts, IInv, TypeOK, Terminal
<1>1. TypeOK' BY DEF HeldInv, AttemptsInv, EmailInv, SendingSent
<1>2. HeldInv' BY DEF HeldInv, AttemptsInv
<1>3. ExclusiveSweep' BY DEF ExclusiveSweep, HeldInv
<1>4. AttemptsInv' BY DEF AttemptsInv, HeldInv
<1>5. EmailInv' BY DEF DuplicatesOnlyBySlips, EmailInv, SendingSent, HeldInv, ExclusiveSweep, AttemptsInv
<1>6. DuplicatesOnlyBySlips' BY DEF DuplicatesOnlyBySlips, EmailInv, SendingSent, HeldInv
<1>7. StuckOnlyIfOrphaned' BY DEF StuckOnlyIfOrphaned, HeldInv
<1> QED BY <1>1, <1>2, <1>3, <1>4, <1>5, <1>6, <1>7

LEMMA RecoverInv == ASSUME IInv, NEW s \in Sweepers, Recover(s) PROVE IInv'
<1> USE ReminderAssumption DEF Recover, OutOfAttempts, Write, Done, rows, sweep, ghosts, IInv, TypeOK, Terminal
<1>1. TypeOK' BY DEF HeldInv, AttemptsInv, EmailInv, SendingSent
<1>2. HeldInv' BY DEF HeldInv, ExclusiveSweep, Rows
<1>3. ExclusiveSweep' BY DEF ExclusiveSweep, HeldInv
<1>4. AttemptsInv' BY DEF AttemptsInv, HeldInv
<1>5. EmailInv' BY DEF EmailInv, SendingSent, HeldInv, ExclusiveSweep, AttemptsInv
<1>6. DuplicatesOnlyBySlips' BY DEF DuplicatesOnlyBySlips, EmailInv, SendingSent, HeldInv
<1>7. StuckOnlyIfOrphaned' BY DEF StuckOnlyIfOrphaned, HeldInv
<1> QED BY <1>1, <1>2, <1>3, <1>4, <1>5, <1>6, <1>7

LEMMA AbandonInv == ASSUME IInv, NEW s \in Sweepers, Abandon(s) PROVE IInv'
<1> USE ReminderAssumption DEF Abandon, Done, rows, sweep, ghosts, IInv, TypeOK, Terminal
<1>1. TypeOK' BY DEF HeldInv, AttemptsInv, EmailInv, SendingSent
<1>2. HeldInv' BY DEF HeldInv, AttemptsInv
<1>3. ExclusiveSweep' BY DEF ExclusiveSweep, HeldInv
<1>4. AttemptsInv' BY DEF AttemptsInv, HeldInv
<1>5. EmailInv' BY DEF EmailInv, SendingSent, HeldInv, ExclusiveSweep, AttemptsInv
<1>6. DuplicatesOnlyBySlips' BY DEF DuplicatesOnlyBySlips, EmailInv, SendingSent, HeldInv
<1>7. StuckOnlyIfOrphaned' BY DEF StuckOnlyIfOrphaned, HeldInv
<1> QED BY <1>1, <1>2, <1>3, <1>4, <1>5, <1>6, <1>7

LEMMA ReleaseInv == ASSUME IInv, NEW s \in Sweepers, Release(s) PROVE IInv'
<1> USE ReminderAssumption DEF Release, Done, rows, sweep, ghosts, IInv, TypeOK, Terminal
<1>1. TypeOK' BY DEF HeldInv, AttemptsInv, EmailInv, SendingSent
<1>2. HeldInv' BY DEF HeldInv, AttemptsInv
<1>3. ExclusiveSweep' BY DEF ExclusiveSweep, HeldInv
<1>4. AttemptsInv' BY DEF AttemptsInv, HeldInv
<1>5. EmailInv' BY DEF EmailInv, SendingSent, HeldInv, ExclusiveSweep, AttemptsInv
<1>6. DuplicatesOnlyBySlips' BY DEF DuplicatesOnlyBySlips, EmailInv, SendingSent, HeldInv
<1>7. StuckOnlyIfOrphaned' BY DEF StuckOnlyIfOrphaned, HeldInv
<1> QED BY <1>1, <1>2, <1>3, <1>4, <1>5, <1>6, <1>7

LEMMA StepInv == IInv /\ [Next]_vars => IInv'
<1> SUFFICES ASSUME IInv, [Next]_vars PROVE IInv' OBVIOUS
<1>1. CASE UNCHANGED vars
    BY <1>1 DEF vars, rows, sweep, ghosts, IInv, TypeOK, HeldInv, ExclusiveSweep, AttemptsInv,
        EmailInv, SendingSent, DuplicatesOnlyBySlips, StuckOnlyIfOrphaned
<1>2. ASSUME NEW a \in Appts, Book(a) \/ Replan(a) \/ StopPlanning(a) \/ \E k \in Rules : PlanRule(a, k)
      PROVE IInv'
    BY <1>2, BookInv, ReplanInv, StopPlanningInv, PlanRuleInv
<1>3. ASSUME NEW a \in Appts,
             Start(a) \/ CancelAppointment(a) \/ CancelReminders(a) \/ DeleteAppointment(a)
      PROVE IInv'
    BY <1>3, StartInv, CancelAppointmentInv, CancelRemindersInv, DeleteAppointmentInv
<1>4. ASSUME NEW s \in Sweepers, Sweep(s) PROVE IInv'
    BY <1>4, ClaimInv, CheckInv, EnqueueEmailInv, FinishInv, ReleaseInv, FailInv,
        RecoverInv, AbandonInv DEF Sweep
<1> QED BY <1>1, <1>2, <1>3, <1>4, BecomeDueInv DEF Next

THEOREM Inductive == Spec => []IInv
BY InitInv, StepInv, PTL DEF Spec

\* Type correctness; in particular no reminder is claimed more often than the cap.
THEOREM TypeCorrect == Spec => []TypeOK
<1>1. IInv => TypeOK BY DEF IInv
<1> QED BY <1>1, Inductive, PTL

\* Two workers never send the same reminder at the same time.
THEOREM SweepsAreExclusive == Spec => []ExclusiveSweep
<1>1. IInv => ExclusiveSweep BY DEF IInv
<1> QED BY <1>1, Inductive, PTL

\* Duplicate emails are exactly accounted for by failures between two commits.
THEOREM DuplicatesAreSlips == Spec => []DuplicatesOnlyBySlips
<1>1. IInv => DuplicatesOnlyBySlips BY DEF IInv
<1> QED BY <1>1, Inductive, PTL

\* A row stays 'sending' only if its worker abandoned it.
THEOREM StuckAreOrphans == Spec => []StuckOnlyIfOrphaned
<1>1. IInv => StuckOnlyIfOrphaned BY DEF IInv
<1> QED BY <1>1, Inductive, PTL

\* A reminder that was sent, has failed, or was cancelled and let go of is never
\* revived.
THEOREM TerminalIsForGood == Spec => TerminalForGood
<1> DEFINE Kept == \A r \in Rows : Final(r) => status'[r] \in {status[r], "none"}
<1>1. IInv /\ [Next]_vars => [Kept]_vars
    <2> SUFFICES ASSUME IInv, Next, NEW r \in Rows, Final(r)
                 PROVE status'[r] \in {status[r], "none"}
        OBVIOUS
    <2> USE DEF IInv, TypeOK, Terminal, Final, rows, sweep, ghosts
    <2>1. CASE \E a \in Appts : Book(a) \/ Replan(a) \/ StopPlanning(a) \/ Start(a) \/ CancelAppointment(a)
        BY <2>1 DEF Book, Replan, StopPlanning, Start, CancelAppointment
    <2>2. CASE \E a \in Appts, k \in Rules : PlanRule(a, k)
        BY <2>2 DEF PlanRule, Unplanned
    <2>3. CASE \E a \in Appts : CancelReminders(a) \/ DeleteAppointment(a)
        BY <2>3 DEF CancelReminders, DeleteAppointment
    <2>4. CASE \E q \in Rows : BecomeDue(q) BY <2>4 DEF BecomeDue
    <2>5. CASE \E s \in Sweepers, q \in Rows : Claim(s, q) BY <2>5 DEF Claim, Claimable
    <2>6. CASE \E s \in Sweepers : Check(s) \/ EnqueueEmail(s) \/ Release(s) \/ Fail(s) \/ Abandon(s)
        BY <2>6 DEF Check, EnqueueEmail, Release, Fail, Abandon
    <2>7. CASE \E s \in Sweepers : Finish(s) \/ Recover(s)
        BY <2>7 DEF Finish, Recover, Write, HeldInv
    <2> QED BY <2>1, <2>2, <2>3, <2>4, <2>5, <2>6, <2>7 DEF Next, Sweep
<1> QED BY <1>1, Inductive, PTL DEF Spec, TerminalForGood, Kept

\* After a cancellation has settled, silence about the appointment is for good.
THEOREM SilenceIsForGood == Spec => SilentForGood
<1> DEFINE Quiet == \A r \in Rows : appt[ApptOf(r)] # "none" /\ Silent(ApptOf(r)) =>
                        Silent(ApptOf(r))' /\ emails'[r] = emails[r]
<1>1. IInv /\ [Next]_vars => [Quiet]_vars
    <2> SUFFICES ASSUME IInv, Next, NEW r \in Rows, appt[ApptOf(r)] # "none", Silent(ApptOf(r))
                 PROVE Silent(ApptOf(r))' /\ emails'[r] = emails[r]
        OBVIOUS
    <2> USE DEF IInv, TypeOK, rows, sweep, ghosts, Silent, Live
    <2>0. ApptOf(r) \in Appts BY DEF ApptOf, Rows
    <2>1. CASE \E a \in Appts : Book(a) \/ Replan(a) \/ StopPlanning(a) \/ Start(a) \/ CancelAppointment(a)
        BY <2>0, <2>1 DEF Book, Replan, StopPlanning, Start, CancelAppointment
    <2>2. CASE \E a \in Appts, k \in Rules : PlanRule(a, k) BY <2>2 DEF PlanRule
    <2>3. CASE \E a \in Appts : CancelReminders(a) \/ DeleteAppointment(a)
        BY <2>0, <2>3 DEF CancelReminders, DeleteAppointment
    <2>4. CASE \E q \in Rows : BecomeDue(q) BY <2>4 DEF BecomeDue
    <2>5. CASE \E s \in Sweepers, q \in Rows : Claim(s, q) BY <2>5 DEF Claim
    <2>6. CASE \E s \in Sweepers : Check(s) BY <2>6 DEF Check, PassesCheck, Goto, HeldInv
    <2>7. CASE \E s \in Sweepers : EnqueueEmail(s) BY <2>7 DEF EnqueueEmail, Goto, HeldInv
    <2>8. CASE \E s \in Sweepers : Fail(s) BY <2>8 DEF Fail, Goto
    <2>9. CASE \E s \in Sweepers : Finish(s) \/ Release(s) \/ Recover(s) \/ Abandon(s)
        BY <2>9 DEF Finish, Release, Recover, Abandon, Done, Goto
    <2> QED BY <2>1, <2>2, <2>3, <2>4, <2>5, <2>6, <2>7, <2>8, <2>9 DEF Next, Sweep
<1> QED BY <1>1, Inductive, PTL DEF Spec, SilentForGood, Quiet

\* Neither a settled row nor a settled cancellation is ever revived.
THEOREM SettledIsForGood == Spec => SettledForGood
BY TerminalIsForGood, SilenceIsForGood, PTL DEF SettledForGood
=============================================================================
