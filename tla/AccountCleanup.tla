--------------------------- MODULE AccountCleanup ---------------------------
(* The clean-up command: a job that lists accounts by three queries and       *)
(* deletes what each listed one by one, a commit per account, while the       *)
(* server goes on.  The database decides a query by the rows, a deletion is   *)
(* decided by the list.                                                       *)
EXTENDS Integers

CONSTANTS Users,
          Guests,         \* those created by guest login
          Never,
          GracePeriod,    \* USER_SELF_DISABLE_PERIOD_DAYS
          GuestDays,      \* guest_account_cleanup_days
          DisabledDays,   \* disabled_account_cleanup_days
          InactiveDays,   \* inactive_registered_account_cleanup_days
          MaxClock,       \* bound on the clock
          MaxCrashes      \* bound on the times the job is killed

ASSUME ConstantsAssumption ==
    /\ Guests \subseteq Users
    /\ Never \notin Nat
    /\ {GracePeriod, GuestDays, DisabledDays, InactiveDays, MaxClock, MaxCrashes}
         \subseteq Nat

VARIABLES users,    \* the users table
          pinned,   \* users whose deletion a foreign key refuses: they lifted a ban
          clock,
          job,      \* the clean-up job
          crashes

vars == <<users, pinned, clock, job, crashes>>

-----------------------------------------------------------------------------
UserRow == [here : BOOLEAN, is_active : BOOLEAN, disabled_at : Nat \cup {Never},
            updated_at : Nat]

Phases == {"guests", "disabled", "inactive"}

Job == [phase : Phases \cup {"off"}, listed : BOOLEAN, batch : SUBSET Users]

Off == [phase |-> "off", listed |-> FALSE, batch |-> {}]

TypeOK ==
    /\ users \in [Users -> UserRow]
    /\ pinned \subseteq Users
    /\ clock \in Nat
    /\ job \in Job
    /\ crashes \in Nat

-----------------------------------------------------------------------------
Here == {u \in Users : users[u].here}

\* The account is self-disabled since more than d days.
DisabledFor(u, d) ==
    users[u].disabled_at # Never /\ users[u].disabled_at + d < clock

\* The row has not been written for more than d days.
UntouchedFor(u, d) == users[u].updated_at + d < clock

\* A mutant: guests are selected by the wrong comparison.
SelectsFreshGuests(phase, u) ==
    CASE phase = "guests"   -> u \in Guests /\ ~UntouchedFor(u, GuestDays)
      [] phase = "disabled" -> /\ u \notin Guests /\ ~users[u].is_active
                               /\ DisabledFor(u, DisabledDays)
      [] phase = "inactive" -> /\ u \notin Guests /\ users[u].is_active
                               /\ UntouchedFor(u, InactiveDays)

\* The WHERE clauses of the three queries.
Selects(phase, u) ==
    CASE phase = "guests"   -> u \in Guests /\ UntouchedFor(u, GuestDays)
      [] phase = "disabled" -> /\ u \notin Guests /\ ~users[u].is_active
                               /\ DisabledFor(u, DisabledDays)
      [] phase = "inactive" -> /\ u \notin Guests /\ users[u].is_active
                               /\ UntouchedFor(u, InactiveDays)

\* A mutant: the job ends after the guests.
NextPhaseOff(phase) == "off"

NextPhase(phase) ==
    CASE phase = "guests" -> "disabled" [] phase = "disabled" -> "inactive"
      [] phase = "inactive" -> "off"

NewRow == [here |-> TRUE, is_active |-> TRUE, disabled_at |-> Never, updated_at |-> 0]

Gone == [NewRow EXCEPT !.here = FALSE]

Init ==
    /\ users = [u \in Users |-> NewRow]
    /\ pinned = {}
    /\ clock = 0
    /\ job = Off
    /\ crashes = 0

-----------------------------------------------------------------------------
(* The job (manage.py, cleanup_main).                                         *)

\* The scheduler runs the command.
Start ==
    /\ job.phase = "off"
    /\ job' = [Off EXCEPT !.phase = "guests"]
    /\ UNCHANGED <<users, pinned, clock, crashes>>

\* One of the three get_..._accounts.
List ==
    /\ job.phase \in Phases /\ ~job.listed
    /\ job' = [job EXCEPT !.listed = TRUE,
                          !.batch = {u \in Here : Selects(job.phase, u)}]
    /\ UNCHANGED <<users, pinned, clock, crashes>>

\* delete_user, for an account of the list as it was read.  A row that is gone
\* by now is only warned about; a refused deletion ends the whole job.
DeleteListed(u) ==
    /\ job.listed
    /\ u \in job.batch
    /\ \/ /\ u \in Here \cap pinned
          /\ job' = Off
          /\ UNCHANGED users
       \/ /\ u \notin Here \cap pinned
          /\ job' = [job EXCEPT !.batch = @ \ {u}]
          /\ users' = [users EXCEPT ![u] = Gone]
    /\ UNCHANGED <<pinned, clock, crashes>>

\* The list is empty: the next query, or the end.
Advance ==
    /\ job.listed /\ job.batch = {}
    /\ job' = [Off EXCEPT !.phase = NextPhase(job.phase)]
    /\ UNCHANGED <<users, pinned, clock, crashes>>

\* The job is killed.
Kill ==
    /\ job.phase # "off" /\ crashes < MaxCrashes
    /\ job' = Off
    /\ crashes' = crashes + 1
    /\ UNCHANGED <<users, pinned, clock>>

-----------------------------------------------------------------------------
(* The server.                                                                *)

\* Any statement that updates a row sets updated_at (onupdate).
Touch(u, row) ==
    /\ u \in Here
    /\ users' = [users EXCEPT ![u] = [row EXCEPT !.updated_at = clock]]
    /\ UNCHANGED <<pinned, clock, job, crashes>>

\* A guest logs in, or a registered user edits their profile.  A registered
\* user's login and refresh do not update the row.
Use(u) == Touch(u, users[u])

\* A mutant: the time of the last update is not maintained.
DisableUntouched(u) ==
    /\ u \in Here /\ users[u].disabled_at = Never
    /\ users' = [users EXCEPT ![u].disabled_at = clock]
    /\ UNCHANGED <<pinned, clock, job, crashes>>

\* A mutant: the time written is local time, behind the clock's.
DisableLocalTime(u) ==
    /\ users[u].disabled_at = Never
    /\ Touch(u, [users[u] EXCEPT !.disabled_at = clock - 1])

\* disable_account.  A guest can be given the scope: update_roles changes the
\* roles and leaves is_guest, which the queries go by.
Disable(u) ==
    /\ users[u].disabled_at = Never
    /\ Touch(u, [users[u] EXCEPT !.disabled_at = clock])

\* enable_account, by an active user within the grace period; the validation of
\* a guest does not come to it.
Enable(u) ==
    /\ u \notin Guests /\ users[u].is_active
    /\ users[u].disabled_at # Never /\ ~DisabledFor(u, GracePeriod)
    /\ Touch(u, [users[u] EXCEPT !.disabled_at = Never])

\* update_user_active_status.
SetActive(u) == Touch(u, [users[u] EXCEPT !.is_active = ~@])

\* The user is deleted by a request.
DeleteByRequest(u) ==
    /\ u \in Here \ pinned
    /\ users' = [users EXCEPT ![u] = Gone]
    /\ UNCHANGED <<pinned, clock, job, crashes>>

\* A moderator, who may be a promoted guest, lifts a ban; or the bans they lifted
\* go with the banned users.
ChangePins(u) ==
    /\ u \in Here
    /\ pinned' = IF u \in pinned THEN pinned \ {u} ELSE pinned \cup {u}
    /\ UNCHANGED <<users, clock, job, crashes>>

Tick ==
    /\ clock < MaxClock
    /\ clock' = clock + 1
    /\ UNCHANGED <<users, pinned, job, crashes>>

-----------------------------------------------------------------------------
JobStep == List \/ Advance \/ \E u \in Users : DeleteListed(u)

Next ==
    \/ Start
    \/ List
    \/ \E u \in Users : DeleteListed(u)
    \/ Advance
    \/ Kill
    \/ \E u \in Users : Use(u)
    \/ \E u \in Users : Disable(u)
    \/ \E u \in Users : Enable(u)
    \/ \E u \in Users : SetActive(u)
    \/ \E u \in Users : DeleteByRequest(u)
    \/ \E u \in Users : ChangePins(u)
    \/ Tick

Spec == Init /\ [][Next]_vars

\* The command is run again and again, and a run that is not killed goes on.
FairSpec == Spec /\ WF_vars(Start) /\ WF_vars(JobStep)

-----------------------------------------------------------------------------
(* Properties.                                                                *)

\* The period of each query.
Days(phase) ==
    CASE phase = "guests"   -> GuestDays
      [] phase = "disabled" -> DisabledDays
      [] phase = "inactive" -> InactiveDays

\* A self-disabled account is listed for deletion only when it has been so for the
\* days of the query that lists it, whatever self-disabling, re-enabling,
\* deactivations and edits came before; two of the queries do not look at
\* disabled_at.  So an owner can bring a registered account back for at least the
\* shorter of DisabledDays and InactiveDays, a promoted guest for GuestDays.
NoticeRespected ==
    [][\A u \in job'.batch \ job.batch :
         users[u].disabled_at # Never => DisabledFor(u, Days(job.phase))]_vars

\* A guest account that is not used is eventually deleted, even when the job is
\* refused a deletion in a later phase every time: guests come first.  The one
\* excuse is a guest that was promoted and lifted a ban.
StaleGuestsGo ==
    \A u \in Guests :
        (u \in Here /\ UntouchedFor(u, GuestDays))
            ~> \/ u \notin Here
               \/ ~UntouchedFor(u, GuestDays)
               \/ pinned \cap Guests # {}

\* So is every account that one of the queries selects, unless some moderator
\* cannot be deleted: one refusal keeps all later accounts.
SelectedGo ==
    \A u \in Users \ Guests :
        (u \in Here /\ \E p \in Phases : Selects(p, u))
            ~> (u \notin Here \/ (\A p \in Phases : ~Selects(p, u)) \/ pinned # {})

\* cleanup.py, get_disabled_accounts_for_cleanup: it "retrieves non-guest
\* accounts that were disabled longer than the grace period".
DisabledFound ==
    [][job.phase = "disabled" /\ job'.listed /\ ~job.listed =>
         {u \in Here \ Guests : DisabledFor(u, DisabledDays)} \subseteq job'.batch]_vars
=============================================================================
