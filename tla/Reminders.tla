----------------------------- MODULE Reminders -----------------------------
(***************************************************************************)
(* Appointment reminders (app/services/reminders.py): planning after a     *)
(* booking, cancellation, and the sweep that claims a due reminder, checks *)
(* it against the live appointment, queues an email and records the        *)
(* outcome, each in a transaction of its own.                              *)
(*                                                                         *)
(* Time is abstracted to two facts that only become true: `due`, the       *)
(* reminders whose send_at has passed, and `started`, the appointments     *)
(* whose starts_at has.  They are independent because shift_out_of_quiet   *)
(* may move a send_at past the start of its appointment.  Claims choose    *)
(* freely among due rows (the code takes the oldest).                      *)
(***************************************************************************)
EXTENDS Naturals

CONSTANTS
    Appts,        \* appointments
    Rules,        \* the first max_per_appointment rules of the configuration
    Reachable,    \* appointments whose contact has a valid email address
    Sweepers,     \* workers running send_due
    Nothing,      \* no reminder is claimed
    MaxAttempts   \* the literal 3 in send_due (ReminderCfg.max_attempts is not read)

ASSUME ReminderAssumption ==
    /\ MaxAttempts \in Nat \ {0}
    /\ Reachable \subseteq Appts
    /\ Nothing \notin Appts \X Rules

\* A row of `reminders` is identified by UNIQUE(appointment_id, rule_key).
Rows == Appts \X Rules
ApptOf(r) == r[1]

VARIABLES
    appt,       \* "none" | "booked" | "cancelled" | "deleted"
    started,    \* appointments with starts_at <= now()
    toPlan,     \* rules the booking's call of plan_for_appointment has left
    status,     \* reminders.status; "none" before INSERT and after deletion
    attempts,   \* reminders.attempts
    due,        \* rows with send_at <= now()
    pc,         \* where each sweeper is in send_due
    claimed,    \* the row it has claimed
    goal,       \* the status its _finish will write
    emails,     \* ghost: reminder emails committed to the job queue, per row
    slips,      \* ghost: exceptions after an email was committed, per row
    orphaned    \* ghost: rows whose sweeper died or whose recovery failed

rows == <<status, attempts, due>>
sweep == <<pc, claimed, goal>>
ghosts == <<emails, slips, orphaned>>
vars == <<appt, started, toPlan, rows, sweep, ghosts>>

Terminal == {"sent", "failed", "cancelled"}

Init ==
    /\ appt = [a \in Appts |-> "none"]
    /\ started = {}
    /\ toPlan = [a \in Appts |-> {}]
    /\ status = [r \in Rows |-> "none"]
    /\ attempts = [r \in Rows |-> 0]
    /\ due = {}
    /\ pc = [s \in Sweepers |-> "idle"]
    /\ claimed = [s \in Sweepers |-> Nothing]
    /\ goal = [s \in Sweepers |-> "sent"]
    /\ emails = [r \in Rows |-> 0]
    /\ slips = [r \in Rows |-> 0]
    /\ orphaned = {}

-----------------------------------------------------------------------------
(* Booking and planning *)

\* The tail of _book_real: the appointment is committed, then planned for.
Book(a) ==
    /\ appt[a] = "none"
    /\ appt' = [appt EXCEPT ![a] = "booked"]
    /\ toPlan' = [toPlan EXCEPT ![a] = Rules]
    /\ UNCHANGED <<started, rows, sweep, ghosts>>

\* plan_for_appointment is documented as safe to call again.
Replan(a) ==
    /\ appt[a] \in {"booked", "cancelled"}
    /\ toPlan' = [toPlan EXCEPT ![a] = Rules]
    /\ UNCHANGED <<appt, started, rows, sweep, ghosts>>

Unplanned(r) == status[r] = "none"

\* One rule: its INSERT, unless the constraint finds it already planned, or its
\* time has passed (hours_before is not negative, so it has once the appointment
\* has started).  The foreign key needs the appointment.
PlanRule(a, k) ==
    /\ k \in toPlan[a]
    /\ toPlan' = [toPlan EXCEPT ![a] = @ \ {k}]
    /\ \/ UNCHANGED status
       \/ /\ appt[a] # "deleted" /\ a \notin started
          /\ Unplanned(<<a, k>>)
          /\ <<a, k>> \notin due
          /\ status' = [status EXCEPT ![<<a, k>>] = "planned"]
    /\ UNCHANGED <<appt, started, attempts, due, sweep, ghosts>>

\* The request dies, or an exception ends planning: the booking stands.
StopPlanning(a) ==
    /\ toPlan[a] # {}
    /\ toPlan' = [toPlan EXCEPT ![a] = {}]
    /\ UNCHANGED <<appt, started, rows, sweep, ghosts>>

-----------------------------------------------------------------------------
(* The clock and the front desk *)

BecomeDue(r) ==
    /\ status[r] = "planned"
    /\ r \notin due
    /\ due' = due \cup {r}
    /\ UNCHANGED <<appt, started, toPlan, status, attempts, sweep, ghosts>>

Start(a) ==
    /\ appt[a] # "none"
    /\ started' = started \cup {a}
    /\ UNCHANGED <<appt, toPlan, rows, sweep, ghosts>>

\* Nothing in app/ cancels an appointment; staff do, in the database.
CancelAppointment(a) ==
    /\ appt[a] = "booked"
    /\ appt' = [appt EXCEPT ![a] = "cancelled"]
    /\ UNCHANGED <<started, toPlan, rows, sweep, ghosts>>

\* cancel_for_appointment
CancelReminders(a) ==
    /\ status' = [r \in Rows |->
                    IF ApptOf(r) = a /\ status[r] = "planned" THEN "cancelled" ELSE status[r]]
    /\ UNCHANGED <<appt, started, toPlan, attempts, due, sweep, ghosts>>

\* Erasure of the tenant deletes the appointment; its reminders cascade.
DeleteAppointment(a) ==
    /\ appt[a] \in {"booked", "cancelled"}
    /\ appt' = [appt EXCEPT ![a] = "deleted"]
    /\ status' = [r \in Rows |-> IF ApptOf(r) = a THEN "none" ELSE status[r]]
    /\ UNCHANGED <<started, toPlan, attempts, due, sweep, ghosts>>

-----------------------------------------------------------------------------
(* The sweep *)

Claimable_NotTerminal(r) == status[r] \in {"planned", "sending"} /\ r \in due
Claimable(r) == status[r] = "planned" /\ r \in due

\* _CLAIM, and its commit.
Claim(s, r) ==
    /\ pc[s] = "idle"
    /\ Claimable(r)
    /\ status' = [status EXCEPT ![r] = "sending"]
    /\ attempts' = [attempts EXCEPT ![r] = @ + 1]
    /\ claimed' = [claimed EXCEPT ![s] = r]
    /\ pc' = [pc EXCEPT ![s] = "check"]
    /\ UNCHANGED <<appt, started, toPlan, due, goal, ghosts>>

Goto(s, label) == pc' = [pc EXCEPT ![s] = label]

\* The appointment, read at send time, is still to be reminded of.
Live(a) == appt[a] = "booked" /\ a \notin started
PassesCheck_ByTime(s) == ApptOf(claimed[s]) \notin started
PassesCheck(s) == Live(ApptOf(claimed[s]))

Check(s) ==
    /\ pc[s] = "check"
    /\ \/ /\ PassesCheck(s)
          /\ Goto(s, "enqueue")
          /\ UNCHANGED goal
       \/ /\ ~PassesCheck(s)
          /\ Goto(s, "finish")
          /\ goal' = [goal EXCEPT ![s] = "cancelled"]
    /\ UNCHANGED <<appt, started, toPlan, rows, claimed, ghosts>>

\* enqueue_email commits a job, or finds no valid recipient.
EnqueueEmail(s) ==
    /\ pc[s] = "enqueue"
    /\ Goto(s, "finish")
    /\ \/ /\ ApptOf(claimed[s]) \in Reachable
          /\ emails' = [emails EXCEPT ![claimed[s]] = @ + 1]
          /\ goal' = [goal EXCEPT ![s] = "sent"]
       \/ /\ ApptOf(claimed[s]) \notin Reachable
          /\ goal' = [goal EXCEPT ![s] = "failed"]
          /\ UNCHANGED emails
    /\ UNCHANGED <<appt, started, toPlan, rows, claimed, slips, orphaned>>

Write_SentOnly(r, v) ==
    status' = [status EXCEPT ![r] = IF @ # "none" /\ v \in {"sent", "cancelled"} THEN v ELSE @]
\* A row deleted meanwhile is matched by no UPDATE.
Write(r, v) == status' = [status EXCEPT ![r] = IF @ = "none" THEN @ ELSE v]

Done(s) ==
    /\ pc' = [pc EXCEPT ![s] = "idle"]
    /\ claimed' = [claimed EXCEPT ![s] = Nothing]
    /\ goal' = [goal EXCEPT ![s] = "sent"]

\* _finish.  'cancelled' is written inside the transaction that read the
\* appointment, which has yet to be released.
Finish(s) ==
    /\ pc[s] = "finish"
    /\ Write(claimed[s], goal[s])
    /\ \/ goal[s] # "cancelled" /\ Done(s)
       \/ goal[s] = "cancelled" /\ Goto(s, "release") /\ UNCHANGED <<claimed, goal>>
    /\ UNCHANGED <<appt, started, toPlan, attempts, due, ghosts>>

Release(s) ==
    /\ pc[s] = "release"
    /\ Done(s)
    /\ UNCHANGED <<appt, started, toPlan, rows, ghosts>>

\* An exception in the check, in enqueue_email before its commit, in _finish, or
\* in closing the transaction of the check.
Fail(s) ==
    /\ pc[s] \in {"check", "enqueue", "finish", "release"}
    /\ Goto(s, "recover")
    /\ slips' = IF pc[s] = "finish" /\ goal[s] = "sent"
                THEN [slips EXCEPT ![claimed[s]] = @ + 1] ELSE slips
    /\ UNCHANGED <<appt, started, toPlan, rows, claimed, goal, emails, orphaned>>

OutOfAttempts_OneMore(r) == attempts[r] > MaxAttempts
OutOfAttempts(r) == attempts[r] >= MaxAttempts

\* The except branch: retry in ten minutes, or give up.
Recover(s) ==
    /\ pc[s] = "recover"
    /\ \/ /\ OutOfAttempts(claimed[s])
          /\ Write(claimed[s], "failed")
          /\ UNCHANGED due
       \/ /\ ~OutOfAttempts(claimed[s])
          /\ Write(claimed[s], "planned")
          /\ due' = due \ {claimed[s]}
    /\ Done(s)
    /\ UNCHANGED <<appt, started, toPlan, attempts, ghosts>>

\* The worker dies, or the except branch itself fails and send_due is left:
\* the row stays 'sending'.  The worker, or its successor, sweeps again.
Abandon(s) ==
    /\ pc[s] # "idle"
    /\ orphaned' = orphaned \cup {claimed[s]}
    /\ Done(s)
    /\ UNCHANGED <<appt, started, toPlan, rows, emails, slips>>

-----------------------------------------------------------------------------
Sweep(s) ==
    \/ \E r \in Rows : Claim(s, r)
    \/ Check(s)
    \/ EnqueueEmail(s)
    \/ Finish(s)
    \/ Release(s)
    \/ Fail(s)
    \/ Recover(s)
    \/ Abandon(s)

Next ==
    \/ \E a \in Appts :
        \/ Book(a) \/ Replan(a) \/ StopPlanning(a)
        \/ \E k \in Rules : PlanRule(a, k)
        \/ Start(a) \/ CancelAppointment(a) \/ CancelReminders(a) \/ DeleteAppointment(a)
    \/ \E r \in Rows : BecomeDue(r)
    \/ \E s \in Sweepers : Sweep(s)

Spec == Init /\ [][Next]_vars

\* The worker loop calls send_due every five minutes, and nothing in it blocks
\* for ever; send_at passes.
Fairness ==
    /\ \A s \in Sweepers : WF_vars(Sweep(s))
    /\ \A r \in Rows : WF_vars(BecomeDue(r))

FairSpec == Spec /\ Fairness

-----------------------------------------------------------------------------
(* Properties *)

\* Every variable has its type; in particular no reminder is claimed more than
\* three times.
TypeOK ==
    /\ appt \in [Appts -> {"none", "booked", "cancelled", "deleted"}]
    /\ started \subseteq Appts
    /\ toPlan \in [Appts -> SUBSET Rules]
    /\ status \in [Rows -> {"none", "planned", "sending"} \cup Terminal]
    /\ attempts \in [Rows -> 0..MaxAttempts]
    /\ due \subseteq Rows
    /\ pc \in [Sweepers -> {"idle", "check", "enqueue", "finish", "release", "recover"}]
    /\ claimed \in [Sweepers -> Rows \cup {Nothing}]
    /\ goal \in [Sweepers -> Terminal]
    /\ emails \in [Rows -> 0..MaxAttempts]
    /\ slips \in [Rows -> 0..MaxAttempts]
    /\ orphaned \subseteq Rows

\* Two workers never work on one reminder at the same time.
ExclusiveSweep ==
    \A s, t \in Sweepers : claimed[s] = claimed[t] /\ claimed[s] # Nothing => s = t

\* What the code really guarantees about duplicates: a customer gets one email,
\* plus one for every time an exception hit between the commit of the email job
\* and the commit of 'sent'.  'sent' is never written without an email.
DuplicatesOnlyBySlips ==
    \A r \in Rows :
        /\ emails[r] <= 1 + slips[r]
        /\ status[r] = "sent" => emails[r] > 0

\* A reminder stuck in 'sending' is one whose worker died: never re-sendable.
StuckOnlyIfOrphaned ==
    \A r \in Rows :
        status[r] = "sending" => r \in orphaned \/ \E s \in Sweepers : claimed[s] = r

\* 'sent' and 'failed' are final, whatever re-plans, sweeps, retries and
\* cancellations run, and so is 'cancelled' once no worker is at the row (until
\* then a failure in closing the check's transaction undoes it).  Only deletion
\* of the appointment removes the row.
Final(r) ==
    \/ status[r] \in {"sent", "failed"}
    \/ status[r] = "cancelled" /\ \A s \in Sweepers : claimed[s] # r
TerminalForGood ==
    [][\A r \in Rows : Final(r) => status'[r] \in {status[r], "none"}]_vars

\* Once an appointment is cancelled or has started, and no worker is past its
\* check, no email about it is ever queued again.
Silent(a) == ~Live(a) /\ \A s \in Sweepers : pc[s] = "enqueue" => ApptOf(claimed[s]) # a
SilentForGood ==
    [][\A r \in Rows : appt[ApptOf(r)] # "none" /\ Silent(ApptOf(r)) =>
            Silent(ApptOf(r))' /\ emails'[r] = emails[r]]_vars

\* What is settled stays settled, a row and an appointment alike.
SettledForGood == TerminalForGood /\ SilentForGood

\* Every planned reminder is eventually sent, failed or cancelled, unless a
\* worker died holding it or the appointment was deleted.
EveryReminderEnds ==
    \A r \in Rows : status[r] = "planned" ~> status[r] \in Terminal \cup {"none"} \/ r \in orphaned

\* reminders.py: '"sent twice" is not a bug this code can have'.
SentOnce == \A r \in Rows : emails[r] <= 1
=============================================================================
