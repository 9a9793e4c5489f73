----------------------------- MODULE AdminLogins -----------------------------
(***************************************************************************)
(* One platform administrator: password, second factor and tokens, from    *)
(* internal/admin/service.go.                                              *)
(*                                                                         *)
(* What Redis holds for a login in two halves (mfa:<token>) and for a      *)
(* refresh token (admin:session:<id>) are tickets: a request reads one,    *)
(* deletes it and is given tokens, with another ticket.  A code is right   *)
(* or wrong for the secret that was read.                                  *)
(***************************************************************************)
EXTENDS Integers, FiniteSets

CONSTANTS
  Requests,     \* requests that may overlap
  MaxTries,     \* the wrong codes VerifyMFA takes for one token
  MaxTickets, MaxSecrets,
  MaxFaults     \* bound on failed statements and requests cut off

ASSUME AdminLoginsAssumption ==
  /\ IsFiniteSet(Requests)
  /\ MaxTries \in Nat \ {0}
  /\ {MaxTickets, MaxSecrets, MaxFaults} \subseteq Nat

VARIABLES
  mfa,        \* mfa_secret, 0 for NULL, and mfa_enabled
  secrets,    \* secrets generated so far
  ticket,     \* ticket[t]: what Redis holds
  tries,      \* tries[t]: admin:mfa:fail:<token>
  doing,      \* doing[r]: the request in progress in r
  faults,
  uses,       \* uses[t]: requests that were let through with t
  kept,       \* kept[t]: of these, requests that did not delete it
  wrong,      \* wrong[t]: refused codes since the last right one
  lost,       \* lost[t]: of these, refusals that were not counted
  enrolled,   \* the secret ConfirmMFASetup last answered for
  mixed       \* two enrolments overlapped, or one was not saved

tallies == <<uses, kept, wrong, lost>>
factor == <<mfa, secrets, enrolled, mixed>>
adminLoginVars == <<factor, ticket, tries, doing, faults, tallies>>

Tickets == 1..MaxTickets
Rest == [op |-> "idle"]

AdminLoginsInit ==
  /\ mfa = [secret |-> 0, enabled |-> FALSE] /\ secrets = 0
  /\ ticket = [t \in Tickets |-> [kind |-> "none", live |-> FALSE]]
  /\ tries = [t \in Tickets |-> 0]
  /\ doing = [r \in Requests |-> Rest]
  /\ faults = 0
  /\ uses = [t \in Tickets |-> 0] /\ kept = [t \in Tickets |-> 0]
  /\ wrong = [t \in Tickets |-> 0] /\ lost = [t \in Tickets |-> 0]
  /\ enrolled = 0 /\ mixed = FALSE

Does(r, d) == doing' = [doing EXCEPT ![r] = d]
Stops(r) == Does(r, Rest)
Faults == faults < MaxFaults /\ faults' = faults + 1

\* A SET of Redis under a new key.
NewTicket(kind, stored) ==
  \E t \in Tickets :
    /\ ticket[t].kind = "none" /\ \A u \in Tickets : u < t => ticket[u].kind # "none"
    /\ ticket' = [ticket EXCEPT ![t] = [kind |-> kind, live |-> stored]]

-----------------------------------------------------------------------------
(* Logging in.                                                             *)

\* Without MFA the token only allows to set it up, and is kept nowhere.
Login ==
  /\ mfa.enabled
  /\ NewTicket("mfa", TRUE)
  /\ UNCHANGED <<factor, tries, doing, faults, tallies>>

\* VerifyMFA finds the token.
AskVerifyMFA(r, t) ==
  /\ doing[r] = Rest
  /\ ticket[t] = [kind |-> "mfa", live |-> TRUE]
  /\ Does(r, [op |-> "verify", ticket |-> t])
  /\ UNCHANGED <<factor, ticket, tries, faults, tallies>>

\* Then it reads the administrator and the count of wrong codes.  These two
\* reads are one step: whoever was given a token has a secret for good, and
\* which one is not told apart here.
CheckTries(r) ==
  LET t == doing[r].ticket IN
  /\ doing[r].op = "verify"
  /\ \/ /\ tries[t] < MaxTries
        /\ \E op \in {"wrong"} \cup (IF mfa.secret = 0 THEN {} ELSE {"clear"}) :
             Does(r, [op |-> op, ticket |-> t])
     \/ tries[t] >= MaxTries /\ Stops(r)
  /\ UNCHANGED <<factor, ticket, tries, faults, tallies>>

\* INCR, whose error is ignored.
CountWrong(r) ==
  LET t == doing[r].ticket IN
  /\ doing[r].op = "wrong"
  /\ \/ tries' = [tries EXCEPT ![t] = @ + 1] /\ UNCHANGED <<faults, lost>>
     \/ Faults /\ lost' = [lost EXCEPT ![t] = @ + 1] /\ UNCHANGED tries
  /\ wrong' = [wrong EXCEPT ![t] = @ + 1]
  /\ Stops(r)
  /\ UNCHANGED <<factor, ticket, uses, kept>>

\* The right code clears the count; should that fail, there are fewer tries.
ClearTries(r) ==
  LET t == doing[r].ticket IN
  /\ doing[r].op = "clear"
  /\ \/ tries' = [tries EXCEPT ![t] = 0] /\ UNCHANGED faults
     \/ Faults /\ UNCHANGED tries
  /\ wrong' = [wrong EXCEPT ![t] = 0] /\ lost' = [lost EXCEPT ![t] = 0]
  /\ Does(r, [op |-> "delete", ticket |-> t])
  /\ UNCHANGED <<factor, ticket, uses, kept>>

\* RefreshToken compares the hash with the one in Redis.
AskRefreshToken(r, t) ==
  /\ doing[r] = Rest
  /\ ticket[t] = [kind |-> "refresh", live |-> TRUE]
  /\ Does(r, [op |-> "delete", ticket |-> t])
  /\ UNCHANGED <<factor, ticket, tries, faults, tallies>>

\* Faulty variant: the ticket stays.
LeaveTicket(r) ==
  LET t == doing[r].ticket IN
  /\ doing[r].op = "delete"
  /\ uses' = [uses EXCEPT ![t] = @ + 1]
  /\ Does(r, [op |-> "issue"])
  /\ UNCHANGED <<factor, ticket, tries, faults, kept, wrong, lost>>

\* DEL of the MFA token or of the session of the refresh token, whose error is
\* ignored.
DeleteTicket(r) ==
  LET t == doing[r].ticket IN
  /\ doing[r].op = "delete"
  /\ \/ ticket' = [ticket EXCEPT ![t].live = FALSE] /\ UNCHANGED <<faults, kept>>
     \/ Faults /\ kept' = [kept EXCEPT ![t] = @ + 1] /\ UNCHANGED ticket
  /\ uses' = [uses EXCEPT ![t] = @ + 1]
  /\ Does(r, [op |-> "issue"])
  /\ UNCHANGED <<factor, tries, wrong, lost>>

\* issueTokens hands them out also when they could not be stored.
IssueTokens(r) ==
  /\ doing[r].op = "issue"
  /\ \/ NewTicket("refresh", TRUE) /\ UNCHANGED faults
     \/ NewTicket("refresh", FALSE) /\ Faults
  /\ Stops(r)
  /\ UNCHANGED <<factor, tries, tallies>>

\* Logout, and time.
TicketEnds(t) ==
  /\ ticket[t].live
  /\ ticket' = [ticket EXCEPT ![t].live = FALSE]
  /\ UNCHANGED <<factor, tries, doing, faults, tallies>>

-----------------------------------------------------------------------------
(* Setting MFA up.                                                         *)

Enrolling == {r \in Requests : doing[r].op \in {"store", "enable"}}

\* Faulty variant: an enabled factor may be set up again.
SetupAgain(r) ==
  /\ doing[r] = Rest
  /\ secrets < MaxSecrets /\ secrets' = secrets + 1
  /\ Does(r, [op |-> "store", secret |-> secrets + 1])
  /\ mixed' = (mixed \/ Enrolling # {})
  /\ UNCHANGED <<mfa, enrolled, ticket, tries, faults, tallies>>

\* SetupMFA reads mfa_enabled and generates a secret.
AskSetupMFA(r) ==
  /\ doing[r] = Rest
  /\ ~mfa.enabled
  /\ secrets < MaxSecrets /\ secrets' = secrets + 1
  /\ Does(r, [op |-> "store", secret |-> secrets + 1])
  /\ mixed' = (mixed \/ Enrolling # {})
  /\ UNCHANGED <<mfa, enrolled, ticket, tries, faults, tallies>>

\* It is written over whatever is there; the answer shows it all the same.
StoreSecret(r) ==
  /\ doing[r].op = "store"
  /\ \/ mfa' = [secret |-> doing[r].secret, enabled |-> FALSE] /\ UNCHANGED faults
     \/ Faults /\ UNCHANGED mfa
  /\ Stops(r)
  /\ UNCHANGED <<secrets, enrolled, mixed, ticket, tries, tallies>>

\* ConfirmMFASetup: the code is right for the secret that was read.
AskConfirmMFASetup(r) ==
  /\ doing[r] = Rest
  /\ mfa.secret # 0
  /\ Does(r, [op |-> "enable", secret |-> mfa.secret])
  /\ mixed' = (mixed \/ Enrolling # {})
  /\ UNCHANGED <<mfa, secrets, enrolled, ticket, tries, faults, tallies>>

\* The UPDATE may fail, and the answer is the same.
EnableMFA(r) ==
  /\ doing[r].op = "enable"
  /\ \/ mfa' = [secret |-> doing[r].secret, enabled |-> TRUE] /\ UNCHANGED <<faults, mixed>>
     \/ Faults /\ mixed' = TRUE /\ UNCHANGED mfa
  /\ enrolled' = doing[r].secret
  /\ Does(r, [op |-> "issue"])
  /\ UNCHANGED <<secrets, ticket, tries, tallies>>

\* The request ends early; a wrong code may be left uncounted.
RequestCut(r) ==
  LET d == doing[r] IN
  /\ d # Rest
  /\ Faults
  /\ IF d.op = "wrong"
     THEN wrong' = [wrong EXCEPT ![d.ticket] = @ + 1] /\ lost' = [lost EXCEPT ![d.ticket] = @ + 1]
     ELSE UNCHANGED <<wrong, lost>>
  /\ Stops(r)
  /\ UNCHANGED <<factor, ticket, tries, uses, kept>>

AdminLoginsNext ==
  \/ Login
  \/ \E t \in Tickets : TicketEnds(t)
  \/ \E r \in Requests :
       \/ \E t \in Tickets : AskVerifyMFA(r, t) \/ AskRefreshToken(r, t)
       \/ AskSetupMFA(r) \/ AskConfirmMFASetup(r)
       \/ CheckTries(r) \/ CountWrong(r) \/ ClearTries(r) \/ DeleteTicket(r) \/ IssueTokens(r)
       \/ StoreSecret(r) \/ EnableMFA(r) \/ RequestCut(r)

-----------------------------------------------------------------------------
(* Properties.                                                             *)

\* An MFA token or a refresh token lets through the requests that read it at
\* the same time, one more for each that failed to delete it, and no other.
\* Wrong codes stop at the limit, but for those read before the last was
\* counted and those whose count was lost.
TicketsAreSpent ==
  \A t \in Tickets :
    /\ uses[t] <= Cardinality(Requests) + kept[t]
    /\ wrong[t] <= MaxTries + Cardinality(Requests) - 1 + lost[t]

\* An administrator who was told that MFA is on logs in with that secret from
\* then on, whatever set-ups are asked for later; unless enrolments overlapped
\* or the UPDATE failed without anyone being told.
EnrolledStays ==
  enrolled # 0 => mixed \/ mfa = [secret |-> enrolled, enabled |-> TRUE]

-----------------------------------------------------------------------------
(* The invariants behind TicketsAreSpent and EnrolledStays.                *)

Doings ==
  [op : {"idle", "issue"}]
  \cup [op : {"verify", "wrong", "clear", "delete"}, ticket : Tickets]
  \cup [op : {"store", "enable"}, secret : Nat]

\* Requests that hold t and may be let through, or that hold a wrong code.
Through(t) == {r \in Requests : doing[r].op \in {"verify", "clear", "delete"} /\ doing[r].ticket = t}
Guessing(t) == {r \in Requests : doing[r].op = "wrong" /\ doing[r].ticket = t}

\* A live ticket was left by every request that used it.
TicketInv ==
  /\ \A t \in Tickets :
       /\ ticket[t].kind = "none" => ~ticket[t].live /\ uses[t] = 0
       /\ ticket[t].live => uses[t] <= kept[t]
       /\ uses[t] + Cardinality(Through(t)) <= Cardinality(Requests) + kept[t]
       /\ wrong[t] <= tries[t] + lost[t]
       /\ wrong[t] + Cardinality(Guessing(t)) <= MaxTries + Cardinality(Requests) - 1 + lost[t]
  /\ \A r \in Requests :
       doing[r].op \in {"verify", "wrong", "clear", "delete"} => ticket[doing[r].ticket].kind # "none"

\* An enrolment that runs alone began with the factor off.
EnrolInv ==
  /\ EnrolledStays
  /\ ~mixed =>
       /\ \A r, q \in Enrolling : r = q
       /\ \A r \in Requests : doing[r].op = "store" => ~mfa.enabled

AdminLoginsInv ==
  /\ ticket \in [Tickets -> [kind : {"none", "mfa", "refresh"}, live : BOOLEAN]]
  /\ doing \in [Requests -> Doings]
  /\ {tries, uses, kept, wrong, lost} \subseteq [Tickets -> Nat]
  /\ mfa \in [secret : Nat, enabled : BOOLEAN] /\ secrets \in Nat
  /\ enrolled \in Nat /\ mixed \in BOOLEAN
  /\ TicketInv /\ EnrolInv
=============================================================================
