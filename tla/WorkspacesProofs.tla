-------------------------- MODULE WorkspacesProofs --------------------------
(***************************************************************************)
(* Theorems about Workspaces, for any number of managers, requests of the  *)
(* invited person, roles, invites and failures; about Edits, for any       *)
(* number of requests, Identities, for any number of claimants, requests,  *)
(* numbers and aliases, and Lists, for any number of rows and changes and  *)
(* any limits.                                                             *)
(***************************************************************************)
EXTENDS MCWorkspaces, SumTheorems

Joining == {"member?", "join"}
Joined == {"grant", "joined"}

-----------------------------------------------------------------------------
(* Calls and those who accept an invite.                                   *)

\* The operation of a call tells what it has in hand.
LEMMA Shapes ==
  ASSUME NEW c \in Calls
  PROVE  /\ c.op \in {"assign", "look", "invite"} => c.role \in Roles
         /\ c.op \in {"revoke", "mark"} \cup Joining \cup Joined => c.invite \in Invites
         /\ c.op \in {"update"} \cup Joined => c.id \in 1..MaxJoins
         /\ c.op = "update" => c.status \in {"ACTIVE", "INACTIVE"} /\ c.asks \in BOOLEAN
         /\ c.op = "look" => /\ [c EXCEPT !.op = "invite"] \in Calls
                             /\ [c EXCEPT !.op = "invite"].op = "invite"
         /\ c.op = "member?" => /\ [c EXCEPT !.op = "join"] \in Calls
                                /\ [c EXCEPT !.op = "mark"] \in Calls
                                /\ [c EXCEPT !.op = "join"].op = "join"
                                /\ [c EXCEPT !.op = "mark"].op = "mark"
                                /\ [c EXCEPT !.op = "join"].invite = c.invite
                                /\ [c EXCEPT !.op = "mark"].invite = c.invite
         /\ c.op = "grant" => /\ [c EXCEPT !.op = "joined"] \in Calls
                              /\ [c EXCEPT !.op = "joined"].op = "joined"
                              /\ [c EXCEPT !.op = "joined"].invite = c.invite
                              /\ [c EXCEPT !.op = "joined"].id = c.id
<1> USE DEF Joining, Joined
<1>1. CASE c = Idle
  BY <1>1 DEF Idle
<1>2. CASE c \in [op : {"assign", "look", "invite"}, role : Roles]
  BY <1>2 DEF Calls
<1>3. CASE c \in [op : {"update"}, id : 1..MaxJoins, status : {"ACTIVE", "INACTIVE"},
                  asks : BOOLEAN]
  BY <1>3 DEF Calls
<1>4. CASE c \in [op : {"revoke", "member?", "join", "mark"}, invite : Invites]
  BY <1>4 DEF Calls
<1>5. CASE c \in [op : {"grant", "joined"}, invite : Invites, id : 1..MaxJoins]
  BY <1>5 DEF Calls
<1> QED BY <1>1, <1>2, <1>3, <1>4, <1>5 DEF Calls

\* The same of every call in progress.
LEMMA CallShapes ==
  ASSUME TypeOK
  PROVE  \A p \in People :
           /\ call[p] \in Calls
           /\ call[p].op \in {"update", "grant", "joined"} =>
                call[p].id \in Nat /\ call[p].id # 0
           /\ call[p].op \in {"revoke", "member?", "join", "mark", "grant", "joined"} =>
                call[p].invite \in Invites
<1> SUFFICES ASSUME NEW p \in People
             PROVE  /\ call[p] \in Calls
                    /\ call[p].op \in {"update", "grant", "joined"} =>
                         call[p].id \in Nat /\ call[p].id # 0
                    /\ call[p].op \in {"revoke", "member?", "join", "mark", "grant", "joined"} =>
                         call[p].invite \in Invites
  OBVIOUS
<1>1. call[p] \in Calls
  BY DEF TypeOK
<1>2. /\ call[p].op \in {"update", "grant", "joined"} => call[p].id \in 1..MaxJoins
      /\ call[p].op \in {"revoke", "member?", "join", "mark", "grant", "joined"} =>
           call[p].invite \in Invites
  BY <1>1, Shapes DEF Joining, Joined
<1>3. \A n \in 1..MaxJoins : n \in Nat /\ n # 0
  BY WorkspacesAssumption
<1> QED BY <1>1, <1>2, <1>3

LEMMA IdleIsCall == Idle \in Calls /\ Idle.op = "idle"
  BY DEF Idle, Calls

LEMMA DoesTyped ==
  ASSUME call \in [People -> Calls], NEW p \in People, NEW c \in Calls, Does(p, c)
  PROVE  /\ call' \in [People -> Calls] /\ call'[p] = c
         /\ \A q \in People : q # p => call'[q] = call[q]
  BY DEF Does

LEMMA EndsTyped ==
  ASSUME call \in [People -> Calls], NEW p \in People, Ends(p)
  PROVE  /\ call' \in [People -> Calls] /\ call'[p] = Idle /\ call'[p].op = "idle"
         /\ \A q \in People : q # p => call'[q] = call[q]
<1>1. Does(p, Idle)
  BY DEF Ends
<1> QED BY <1>1, IdleIsCall, DoesTyped

\* The two sets are finite and nobody is in both.
LEMMA GuestsCounted ==
  ASSUME NEW i \in Invites
  PROVE  /\ IsFiniteSet(BeforeJoin(i)) /\ IsFiniteSet(AfterJoin(i))
         /\ Cardinality(Guests) \in Nat
         /\ Cardinality(BeforeJoin(i)) \in Nat /\ Cardinality(AfterJoin(i)) \in Nat
         /\ Cardinality(BeforeJoin(i)) + Cardinality(AfterJoin(i)) <= Cardinality(Guests)
<1>1. /\ IsFiniteSet(Guests) /\ BeforeJoin(i) \subseteq Guests /\ AfterJoin(i) \subseteq Guests
      /\ BeforeJoin(i) \cap AfterJoin(i) = {}
  BY WorkspacesAssumption DEF BeforeJoin, AfterJoin
<1>2. /\ IsFiniteSet(BeforeJoin(i)) /\ IsFiniteSet(AfterJoin(i))
      /\ IsFiniteSet(BeforeJoin(i) \cap AfterJoin(i))
      /\ BeforeJoin(i) \cup AfterJoin(i) \subseteq Guests
  BY <1>1, FS_Subset
<1>3. /\ Cardinality(Guests) \in Nat /\ Cardinality(BeforeJoin(i)) \in Nat
      /\ Cardinality(AfterJoin(i)) \in Nat
      /\ Cardinality(BeforeJoin(i) \cap AfterJoin(i)) = 0
  BY <1>1, <1>2, FS_CardinalityType, FS_EmptySet
<1>4. Cardinality(BeforeJoin(i) \cup AfterJoin(i))
        = Cardinality(BeforeJoin(i)) + Cardinality(AfterJoin(i))
  <2>1. Cardinality(BeforeJoin(i) \cup AfterJoin(i))
          = Cardinality(BeforeJoin(i)) + Cardinality(AfterJoin(i))
              - Cardinality(BeforeJoin(i) \cap AfterJoin(i))
    BY <1>2, FS_Union
  <2> QED BY <1>3, <2>1
<1>5. Cardinality(BeforeJoin(i) \cup AfterJoin(i)) <= Cardinality(Guests)
  BY <1>1, <1>2, FS_Subset
<1> QED BY <1>2, <1>3, <1>4, <1>5

\* Leaving a set counts one less.
LEMMA OneLess ==
  ASSUME NEW S, NEW T, NEW g \in S, IsFiniteSet(S), T \subseteq S \ {g}
  PROVE  /\ IsFiniteSet(T) /\ Cardinality(T) \in Nat
         /\ Cardinality(T) <= Cardinality(S) - 1
         /\ T = S \ {g} => Cardinality(T) = Cardinality(S) - 1
<1>1. IsFiniteSet(S \ {g}) /\ Cardinality(S \ {g}) = Cardinality(S) - 1
  BY FS_RemoveElement
<1>2. IsFiniteSet(T) /\ Cardinality(T) <= Cardinality(S \ {g})
  BY <1>1, FS_Subset
<1> QED BY <1>1, <1>2, FS_CardinalityType

\* A call p that goes on without making a member or leaving a join behind.
LEMMA GuestsKept ==
  ASSUME call \in [People -> Calls], NEW p \in People, NEW c \in Calls, Does(p, c),
         c.op \in Joining => call[p].op \in Joining /\ c.invite = call[p].invite,
         c.op \in Joined <=> call[p].op \in Joined,
         c.op \in Joined => c.invite = call[p].invite
  PROVE  \A i \in Invites :
           BeforeJoin(i)' \subseteq BeforeJoin(i) /\ AfterJoin(i)' = AfterJoin(i)
<1>1. call'[p] = c /\ \A q \in People : q # p => call'[q] = call[q]
  BY DoesTyped
<1>2. Guests \subseteq People
  BY DEF People
<1>3. ASSUME NEW i \in Invites, NEW g \in Guests
      PROVE  /\ g \in BeforeJoin(i)' => g \in BeforeJoin(i)
             /\ g \in AfterJoin(i)' <=> g \in AfterJoin(i)
  BY <1>1, <1>2 DEF BeforeJoin, AfterJoin, Joining, Joined
<1> QED BY <1>3 DEF BeforeJoin, AfterJoin

\* What may become of the status of an invite.
Moves(s, t) ==
  \/ t = s
  \/ s = "none"
  \/ s \in {"open", "expired"} /\ t \in {"expired", "accepted", "gone"}
  \/ s = "accepted" /\ t = "gone"

\* An invite without calls and memberships counts nothing.
LEMMA NoneCounted ==
  ASSUME TypeOK, CallInv, NEW i \in Invites, invite[i].status = "none"
  PROVE  BeforeJoin(i) = {} /\ AfterJoin(i) = {}
  BY DEF CallInv, BeforeJoin, AfterJoin, People

LEMMA CountKept ==
  ASSUME WorkspacesInv, UNCHANGED <<admitted, lost>>,
         \A i \in Invites :
           BeforeJoin(i)' \subseteq BeforeJoin(i) /\ AfterJoin(i)' = AfterJoin(i),
         \A i \in Invites : Moves(invite[i].status, invite'[i].status)
  PROVE  CountInv'
<1> SUFFICES ASSUME NEW i \in Invites
             PROVE  /\ invite'[i].status \in {"open", "expired"} =>
                         admitted[i] = lost[i] + Cardinality(AfterJoin(i)')
                    /\ invite'[i].status \in {"accepted", "gone"} =>
                         admitted[i] + Cardinality(BeforeJoin(i)')
                           <= Cardinality(Guests) + lost[i]
  BY DEF CountInv
<1>1. /\ Cardinality(BeforeJoin(i)') \in Nat
      /\ Cardinality(BeforeJoin(i)') <= Cardinality(BeforeJoin(i))
  BY GuestsCounted, FS_Subset, FS_CardinalityType
<1>2. admitted[i] \in Nat /\ lost[i] \in Nat
  BY DEF WorkspacesInv, TypeOK
<1>3. CASE invite[i].status = "none"
  <2>1. admitted[i] = 0 /\ lost[i] = 0 /\ BeforeJoin(i) = {} /\ AfterJoin(i) = {}
    BY <1>3, NoneCounted DEF WorkspacesInv, RowInv
  <2> QED BY <1>1, <2>1, GuestsCounted, FS_EmptySet
<1>4. CASE invite[i].status # "none"
  BY <1>1, <1>2, <1>4, GuestsCounted DEF WorkspacesInv, CountInv, Moves
<1> QED BY <1>3, <1>4

-----------------------------------------------------------------------------
(* Managers.                                                               *)

\* A manager's call that looks, or ends, and changes no row that counts.
LEMMA LookingKeeps ==
  ASSUME WorkspacesInv, NEW m \in Managers, NEW c \in Calls, Does(m, c),
         c.op \in {"idle", "assign", "look", "invite", "revoke"},
         c.op = "revoke" => invite[c.invite].status # "none",
         assigned' \subseteq Roles, assigned \subseteq assigned',
         UNCHANGED <<role, invite, member, joins, cuts, history>>
  PROVE  WorkspacesInv'
<1> USE DEF WorkspacesInv, history
<1>0. m \in People /\ call \in [People -> Calls]
  BY DEF People, TypeOK
<1>1. /\ call' \in [People -> Calls] /\ call'[m] = c
      /\ \A q \in People : q # m => call'[q] = call[q]
  BY <1>0, DoesTyped
<1>2. TypeOK'
  BY <1>1 DEF TypeOK
<1>3. CallInv'
  BY <1>0, <1>1 DEF CallInv, On
<1>4. RowInv'
  BY DEF RowInv
<1>5. CountInv'
  <2>1. m \notin Guests
    BY WorkspacesAssumption
  <2>2. call[m].op \notin Joined
    BY <1>0, <2>1 DEF CallInv, Joined
  <2>3. c.op \notin Joining /\ c.op \notin Joined
    BY DEF Joining, Joined
  <2>4. \A i \in Invites :
          BeforeJoin(i)' \subseteq BeforeJoin(i) /\ AfterJoin(i)' = AfterJoin(i)
    BY <1>0, <2>2, <2>3, GuestsKept
  <2> QED BY <2>4, CountKept DEF Moves
<1>6. StatusInv'
  BY <1>0, <1>1 DEF StatusInv, On, People
<1>7. AdmittedCanWork'
  <2>1. m \notin Guests
    BY WorkspacesAssumption
  <2> QED BY <1>1, <2>1 DEF AdmittedCanWork, On, People
<1> QED BY <1>2, <1>3, <1>4, <1>5, <1>6, <1>7

LEMMA UpdatingKeeps ==
  ASSUME WorkspacesInv, NEW m \in Managers, AskUpdate(m)
  PROVE  WorkspacesInv'
<1> USE DEF WorkspacesInv, history
<1>1. PICK s \in {"ACTIVE", "INACTIVE"}, asks \in BOOLEAN :
        /\ asks \/ s = member.status
        /\ Does(m, [op |-> "update", id |-> member.id, status |-> s, asks |-> asks])
  BY DEF AskUpdate
<1> DEFINE c == [op |-> "update", id |-> member.id, status |-> s, asks |-> asks]
<1>0. m \in People /\ call \in [People -> Calls] /\ m \notin Guests
  BY WorkspacesAssumption DEF People, TypeOK
<1>2. c \in Calls /\ member.id \in 1..joins
  <2>1. member.id \in 0..joins /\ member.id # 0 /\ joins \in 0..MaxJoins /\ MaxJoins \in Nat
    BY WorkspacesAssumption DEF AskUpdate, ExistsRelation, RowInv, TypeOK
  <2>2. member.id \in 1..joins /\ member.id \in 1..MaxJoins
    BY <2>1
  <2> QED BY <2>2 DEF Calls
<1>3. /\ call' \in [People -> Calls] /\ call'[m] = c
      /\ \A q \in People : q # m => call'[q] = call[q]
  BY <1>0, <1>1, <1>2, DoesTyped
<1>4. UNCHANGED <<role, invite, member, joins, assigned, cuts, admitted, lost, unranked, taken, said>>
  BY DEF AskUpdate, records
<1>5. TypeOK'
  BY <1>3, <1>4 DEF TypeOK, AskUpdate
<1>6. CallInv'
  BY <1>0, <1>2, <1>3, <1>4 DEF CallInv, On, TypeOK
<1>7. RowInv'
  BY <1>4 DEF RowInv
<1>8. CountInv'
  <2>1. call[m].op \notin Joined /\ c.op \notin Joining /\ c.op \notin Joined
    BY <1>0 DEF CallInv, Joined, Joining
  <2>2. \A i \in Invites :
          BeforeJoin(i)' \subseteq BeforeJoin(i) /\ AfterJoin(i)' = AfterJoin(i)
    BY <1>0, <1>1, <1>2, <2>1, GuestsKept
  <2> QED BY <1>4, <2>2, CountKept DEF Moves
<1>9. StatusInv'
  <2>1. \A n \in Managers : n # m /\ On(n, "update") => crossed'
    BY DEF AskUpdate
  <2>2. crossed => crossed'
    BY DEF AskUpdate, TypeOK
  <2> QED BY <1>0, <1>1, <1>3, <1>4, <2>1, <2>2 DEF StatusInv, On, People
<1>10. AdmittedCanWork'
  BY <1>0, <1>3, <1>4 DEF AdmittedCanWork, On, People
<1> QED BY <1>5, <1>6, <1>7, <1>8, <1>9, <1>10

LEMMA UpdatedKeeps ==
  ASSUME WorkspacesInv, NEW m \in Managers, UpdateMember(m)
  PROVE  WorkspacesInv'
<1> USE DEF WorkspacesInv
<1> DEFINE c == call[m]
<1>0. /\ m \in People /\ call \in [People -> Calls] /\ m \notin Guests
      /\ c \in Calls /\ c.op = "update"
  BY WorkspacesAssumption DEF People, TypeOK, UpdateMember, On
<1>1. /\ call' \in [People -> Calls] /\ call'[m] = Idle /\ call'[m].op = "idle"
      /\ \A q \in People : q # m => call'[q] = call[q]
  BY <1>0, EndsTyped DEF UpdateMember
<1>2. /\ c.id \in 1..MaxJoins /\ c.status \in {"ACTIVE", "INACTIVE"} /\ c.asks \in BOOLEAN
  BY <1>0, Shapes
<1>3. UNCHANGED <<role, invite, joins, assigned, cuts, admitted, lost, unranked, taken, crossed>>
  BY DEF UpdateMember
<1>4. /\ member' \in [id : 0..joins, status : {"none", "ACTIVE", "INACTIVE"}, via : 0..MaxInvites]
      /\ member'.id = member.id /\ member'.via = member.via
      /\ member'.status = IF member.id = c.id THEN c.status ELSE member.status
      /\ member' = Nobody => member = Nobody
  BY <1>2 DEF UpdateMember, TypeOK, Nobody
<1>5. TypeOK'
  BY <1>1, <1>3, <1>4 DEF TypeOK
<1>6. CallInv'
  BY <1>0, <1>1, <1>3, <1>4 DEF CallInv, On
<1>7. RowInv'
  <2>1. member' # Nobody =>
          member'.id # 0 /\ member'.via \in Invites /\ invite'[member'.via].status # "none"
    <3>1. CASE member # Nobody
      BY <1>3, <1>4, <3>1 DEF RowInv
    <3>2. CASE member = Nobody
      <4>1. member.id # c.id
        BY <1>2, <3>2 DEF Nobody
      <4> QED BY <3>2, <4>1 DEF UpdateMember
    <3> QED BY <3>1, <3>2
  <2> QED BY <1>3, <2>1 DEF RowInv
<1>8. CountInv'
  <2>1. Does(m, Idle) /\ c.op \notin Joined /\ Idle.op \notin Joining /\ Idle.op \notin Joined
    BY <1>0 DEF UpdateMember, Ends, Joined, Joining, Idle
  <2>2. \A i \in Invites :
          BeforeJoin(i)' \subseteq BeforeJoin(i) /\ AfterJoin(i)' = AfterJoin(i)
    BY <1>0, <2>1, IdleIsCall, GuestsKept
  <2> QED BY <1>3, <2>2, CountKept DEF Moves
<1>9. StatusInv'
  <2>1. ASSUME ~crossed
        PROVE  /\ member'.status = said'
               /\ \A n \in Managers : ~(call'[n].op = "update")
    <3>1. /\ member.status = said
          /\ \A n \in Managers : On(n, "update") => n = m
          /\ ~c.asks /\ c.id = member.id => c.status = member.status
      BY <1>0, <2>1 DEF StatusInv, On
    <3>2. said' = IF member.id = c.id /\ c.asks THEN c.status ELSE said
      BY DEF UpdateMember
    <3> QED BY <1>0, <1>1, <1>2, <1>4, <3>1, <3>2 DEF On, People
  <2> QED BY <1>3, <2>1 DEF StatusInv, On
<1>10. AdmittedCanWork'
  <2>1. member' # Nobody => member # Nobody
    <3>1. member = Nobody => member.id # c.id
      BY <1>2 DEF Nobody
    <3> QED BY <3>1 DEF UpdateMember
  <2> QED BY <1>0, <1>1, <1>3, <1>4, <2>1 DEF AdmittedCanWork, On, People
<1> QED BY <1>5, <1>6, <1>7, <1>8, <1>9, <1>10

\* A manager writes an invite: a new one, or one that is gone.
LEMMA InvitingKeeps ==
  ASSUME WorkspacesInv, NEW m \in Managers, CreateInvite(m) \/ RevokeInvite(m)
  PROVE  WorkspacesInv'
<1> USE DEF WorkspacesInv, history
<1>0. /\ m \in People /\ call \in [People -> Calls] /\ m \notin Guests
      /\ call[m] \in Calls /\ call[m].op \in {"invite", "revoke"}
  BY WorkspacesAssumption DEF People, TypeOK, CreateInvite, RevokeInvite, On
<1>1. /\ call' \in [People -> Calls] /\ call'[m] = Idle /\ call'[m].op = "idle"
      /\ \A q \in People : q # m => call'[q] = call[q]
  BY <1>0, EndsTyped DEF CreateInvite, RevokeInvite
<1>2. UNCHANGED <<role, member, joins, assigned, cuts, history>>
  BY DEF CreateInvite, RevokeInvite
<1>3. /\ invite' \in [Invites -> [status : {"none", "open", "expired", "accepted", "gone"},
                                  role : Roles \cup {"none"}]]
      /\ \A i \in Invites : Moves(invite[i].status, invite'[i].status)
      /\ \A i \in Invites : invite[i].status # "none" =>
           invite'[i].status # "none" /\ invite'[i].role = invite[i].role
      /\ \A i \in Invites : invite[i].status = "none" /\ invite'[i].status # "none" =>
           invite'[i].role \in Roles /\ role[invite'[i].role] # "none"
      /\ \A i \in Invites : invite'[i].status = "none" => invite'[i] = invite[i]
  <2>1. CASE CreateInvite(m)
    <3>1. CASE role[call[m].role] = "live"
      <4>1. PICK i \in Invites :
              /\ invite[i].status = "none"
              /\ invite' = [invite EXCEPT ![i] = [status |-> "open", role |-> call[m].role]]
        BY <2>1, <3>1 DEF CreateInvite
      <4>2. call[m].role \in Roles
        BY <1>0, <2>1, Shapes DEF CreateInvite, On
      <4> QED BY <3>1, <4>1, <4>2 DEF TypeOK, Moves
    <3>2. CASE role[call[m].role] # "live"
      BY <2>1, <3>2 DEF CreateInvite, TypeOK, Moves
    <3> QED BY <3>1, <3>2
  <2>2. CASE RevokeInvite(m)
    <3>1. call[m].invite \in Invites
      BY <1>0, <2>2, Shapes DEF RevokeInvite, On
    <3>2. invite[call[m].invite].status # "none"
      BY <1>0, <2>2 DEF RevokeInvite, On, CallInv
    <3> QED BY <2>2, <3>1, <3>2 DEF RevokeInvite, TypeOK, Moves
  <2> QED BY <2>1, <2>2
<1>4. TypeOK'
  BY <1>1, <1>2, <1>3 DEF TypeOK
<1>5. CallInv'
  <2>1. \A q \in People :
          call[q].op \in {"revoke", "member?", "join", "mark", "grant", "joined"} =>
            call[q].invite \in Invites
    BY <1>0, Shapes DEF Joining, Joined
  <2> QED BY <1>0, <1>1, <1>2, <1>3, <2>1 DEF CallInv, On
<1>6. RowInv'
  BY <1>2, <1>3 DEF RowInv, TypeOK
<1>7. CountInv'
  <2>1. Does(m, Idle) /\ call[m].op \notin Joined /\ Idle.op \notin Joining /\ Idle.op \notin Joined
    BY <1>0 DEF CreateInvite, RevokeInvite, Ends, Joined, Joining, Idle
  <2>2. \A i \in Invites :
          BeforeJoin(i)' \subseteq BeforeJoin(i) /\ AfterJoin(i)' = AfterJoin(i)
    BY <1>0, <2>1, IdleIsCall, GuestsKept
  <2> QED BY <1>2, <1>3, <2>2, CountKept
<1>8. StatusInv'
  BY <1>0, <1>1, <1>2 DEF StatusInv, On, People
<1>9. AdmittedCanWork'
  <2>1. member # Nobody => invite'[member.via].role = invite[member.via].role
    BY <1>3 DEF RowInv
  <2> QED BY <1>0, <1>1, <1>2, <2>1 DEF AdmittedCanWork, On, People
<1> QED BY <1>4, <1>5, <1>6, <1>7, <1>8, <1>9

-----------------------------------------------------------------------------
(* Requests that are one statement, and time.                              *)

\* No call moves, and no membership is made.
LEMMA RowsKeep ==
  ASSUME WorkspacesInv, TypeOK',
         UNCHANGED <<joins, call, cuts, admitted, lost, crossed>>,
         \A r \in Roles : role[r] # "none" => role'[r] # "none",
         \A r \in Roles : role[r] = "gone" => role'[r] = "gone",
         \A i \in Invites : Moves(invite[i].status, invite'[i].status),
         \A i \in Invites : invite'[i].role = invite[i].role,
         \A i \in Invites : (invite'[i].status = "none") = (invite[i].status = "none"),
         \/ /\ member' = member /\ said' = said /\ unranked' = unranked
            /\ \A r \in assigned : r \in assigned' \cup taken' \/ role'[r] = "gone"
            /\ taken \subseteq taken'
         \/ member' = Nobody /\ said' = "none"
  PROVE  WorkspacesInv'
<1> USE DEF WorkspacesInv
<1>1. CallInv'
  <2>1. \A q \in People :
          call[q].op \in {"revoke", "member?", "join", "mark", "grant", "joined"} =>
            call[q].invite \in Invites
    BY CallShapes
  <2>2. \A q \in People : On(q, "grant") => call[q].id # 0
    BY CallShapes DEF On
  <2> QED BY <2>1, <2>2 DEF CallInv, On, Nobody
<1>2. RowInv'
  BY DEF RowInv, TypeOK
<1>3. CountInv'
  <2>1. \A i \in Invites :
          BeforeJoin(i)' \subseteq BeforeJoin(i) /\ AfterJoin(i)' = AfterJoin(i)
    BY DEF BeforeJoin, AfterJoin
  <2> QED BY <2>1, CountKept
<1>4. StatusInv'
  <2>1. \A n \in Managers : On(n, "update") => call[n].id # 0
    BY CallShapes DEF On, People
  <2> QED BY <2>1 DEF StatusInv, On, Nobody
<1>5. AdmittedCanWork'
  <2>1. CASE /\ member' = member /\ said' = said /\ unranked' = unranked
             /\ \A r \in assigned : r \in assigned' \cup taken' \/ role'[r] = "gone"
             /\ taken \subseteq taken'
    <3>1. member # Nobody => invite[member.via].role \in Roles /\ member.via \in Invites
      BY DEF RowInv
    <3> QED BY <2>1, <3>1 DEF AdmittedCanWork, On
  <2>2. CASE member' = Nobody
    BY <2>2 DEF AdmittedCanWork
  <2> QED BY <2>1, <2>2
<1> QED BY <1>1, <1>2, <1>3, <1>4, <1>5

LEMMA AtOnceKeeps ==
  ASSUME WorkspacesInv, ManageAtOnce \/ \E i \in Invites : InviteExpires(i)
  PROVE  WorkspacesInv'
<1> USE DEF WorkspacesInv, history, Moves
<1>1. ASSUME NEW r \in Roles, CreateWorkspaceRole(r)
      PROVE  WorkspacesInv'
  <2>1. TypeOK'
    BY <1>1 DEF CreateWorkspaceRole, TypeOK
  <2> QED BY <1>1, <2>1, RowsKeep DEF CreateWorkspaceRole, TypeOK
<1>2. ASSUME NEW r \in Roles, DeleteWorkspaceRole(r)
      PROVE  WorkspacesInv'
  <2>1. TypeOK'
    BY <1>2 DEF DeleteWorkspaceRole, TypeOK
  <2>2. \A i \in Invites :
          /\ invite'[i].role = invite[i].role
          /\ Moves(invite[i].status, invite'[i].status)
          /\ (invite'[i].status = "none") = (invite[i].status = "none")
    <3>1. \A i \in Invites : invite[i].role = r => invite[i].status # "none"
      BY WorkspacesAssumption DEF RowInv
    <3> QED BY <1>2, <3>1 DEF DeleteWorkspaceRole, TypeOK
  <2> QED BY <1>2, <2>1, <2>2, RowsKeep DEF DeleteWorkspaceRole, TypeOK
<1>3. ASSUME NEW r \in Roles, UnassignRole(r)
      PROVE  WorkspacesInv'
  <2>1. TypeOK'
    BY <1>3 DEF UnassignRole, TypeOK
  <2> QED BY <1>3, <2>1, RowsKeep DEF UnassignRole, TypeOK
<1>4. CASE RemoveMember
  <2>1. TypeOK'
    <3>1. 0 \in 0..joins /\ 0 \in 0..MaxInvites
      BY WorkspacesAssumption DEF TypeOK
    <3>2. member' \in [id : 0..joins, status : {"none", "ACTIVE", "INACTIVE"}, via : 0..MaxInvites]
      BY <1>4, <3>1 DEF RemoveMember, Nobody
    <3> QED BY <1>4, <3>2 DEF RemoveMember, TypeOK
  <2> QED BY <1>4, <2>1, RowsKeep DEF RemoveMember, TypeOK
<1>5. ASSUME NEW i \in Invites, InviteExpires(i)
      PROVE  WorkspacesInv'
  <2>1. TypeOK'
    BY <1>5 DEF InviteExpires, TypeOK
  <2> QED BY <1>5, <2>1, RowsKeep DEF InviteExpires, TypeOK
<1> QED BY <1>1, <1>2, <1>3, <1>4, <1>5 DEF ManageAtOnce

-----------------------------------------------------------------------------
(* AcceptInvite, and calls cut off.                                        *)

\* Where a guest's call leaves it.
LEMMA GuestsMoved ==
  ASSUME call \in [People -> Calls], NEW g \in Guests, NEW c \in Calls, Does(g, c), NEW i \in Invites
  PROVE  /\ BeforeJoin(i)' = IF c.op \in Joining /\ c.invite = i
                             THEN BeforeJoin(i) \cup {g} ELSE BeforeJoin(i) \ {g}
         /\ AfterJoin(i)' = IF c.op \in Joined /\ c.invite = i
                            THEN AfterJoin(i) \cup {g} ELSE AfterJoin(i) \ {g}
<1>1. g \in People /\ Guests \subseteq People
  BY DEF People
<1>2. call'[g] = c /\ \A q \in People : q # g => call'[q] = call[q]
  BY <1>1, DoesTyped
<1> QED BY <1>1, <1>2 DEF BeforeJoin, AfterJoin, Joining, Joined

\* A call of a guest that looks for the invite or the membership.
LEMMA AskingKeeps ==
  ASSUME WorkspacesInv, NEW g \in Guests, NEW i \in Invites, AskAccept(g, i)
  PROVE  WorkspacesInv'
<1> USE DEF WorkspacesInv, history, records
<1> DEFINE c == [op |-> "member?", invite |-> i]
<1>0. g \in People /\ call \in [People -> Calls] /\ c \in Calls /\ Does(g, c) /\ call[g].op = "idle"
  BY DEF People, TypeOK, Calls, AskAccept, On
<1>1. /\ call' \in [People -> Calls] /\ call'[g] = c
      /\ \A q \in People : q # g => call'[q] = call[q]
  BY <1>0, DoesTyped
<1>2. UNCHANGED <<role, invite, member, joins, assigned, cuts, history>> /\ invite[i].status = "open"
  BY DEF AskAccept
<1>3. TypeOK'
  BY <1>1, <1>2 DEF TypeOK
<1>4. CallInv'
  BY <1>0, <1>1, <1>2 DEF CallInv, On
<1>5. RowInv'
  BY <1>2 DEF RowInv
<1>6. CountInv'
  <2>1. \A j \in Invites : /\ j # i => BeforeJoin(j)' = BeforeJoin(j) \ {g}
                           /\ AfterJoin(j)' = AfterJoin(j) \ {g}
    BY <1>0, GuestsMoved DEF Joining, Joined
  <2>2. \A j \in Invites : g \notin BeforeJoin(j) /\ g \notin AfterJoin(j)
    BY <1>0 DEF BeforeJoin, AfterJoin
  <2>3. \A j \in Invites : /\ j # i => BeforeJoin(j)' = BeforeJoin(j)
                           /\ AfterJoin(j)' = AfterJoin(j)
    BY <2>1, <2>2
  <2> QED BY <1>2, <2>3 DEF CountInv
<1>7. StatusInv'
  BY <1>0, <1>1, <1>2 DEF StatusInv, On, People
<1>8. AdmittedCanWork'
  BY <1>0, <1>1, <1>2 DEF AdmittedCanWork, On, People
<1> QED BY <1>3, <1>4, <1>5, <1>6, <1>7, <1>8

LEMMA LookedKeeps ==
  ASSUME WorkspacesInv, NEW g \in Guests, LookForMember(g)
  PROVE  WorkspacesInv'
<1> USE DEF WorkspacesInv, history, records
<1> DEFINE c == [call[g] EXCEPT !.op = IF ExistsRelation THEN "mark" ELSE "join"]
<1>0. /\ g \in People /\ call \in [People -> Calls] /\ call[g] \in Calls
      /\ call[g].op = "member?" /\ Does(g, c)
  BY DEF People, TypeOK, LookForMember, On
<1>1. /\ c \in Calls /\ c.op \in {"mark", "join"} /\ c.invite = call[g].invite
      /\ c.invite \in Invites
  <2>1. /\ call[g].invite \in Invites
        /\ [call[g] EXCEPT !.op = "join"] \in Calls /\ [call[g] EXCEPT !.op = "mark"] \in Calls
        /\ [call[g] EXCEPT !.op = "join"].op = "join" /\ [call[g] EXCEPT !.op = "mark"].op = "mark"
        /\ [call[g] EXCEPT !.op = "join"].invite = call[g].invite
        /\ [call[g] EXCEPT !.op = "mark"].invite = call[g].invite
    BY <1>0, Shapes DEF Joining
  <2>2. c = [call[g] EXCEPT !.op = "mark"] \/ c = [call[g] EXCEPT !.op = "join"]
    OBVIOUS
  <2> QED BY <2>1, <2>2
<1>2. /\ call' \in [People -> Calls] /\ call'[g] = c
      /\ \A q \in People : q # g => call'[q] = call[q]
  BY <1>0, <1>1, DoesTyped
<1>3. UNCHANGED <<role, invite, member, joins, assigned, cuts, history>>
  BY DEF LookForMember
<1> HIDE DEF c
<1>4. TypeOK'
  BY <1>2, <1>3 DEF TypeOK
<1>5. CallInv'
  BY <1>0, <1>1, <1>2, <1>3 DEF CallInv, On
<1>6. RowInv'
  BY <1>3 DEF RowInv
<1>7. CountInv'
  <2>1. \A i \in Invites :
          BeforeJoin(i)' \subseteq BeforeJoin(i) /\ AfterJoin(i)' = AfterJoin(i)
    BY <1>0, <1>1, GuestsKept DEF Joining, Joined
  <2> QED BY <1>3, <2>1, CountKept DEF Moves
<1>8. StatusInv'
  BY <1>0, <1>1, <1>2, <1>3 DEF StatusInv, On, People
<1>9. AdmittedCanWork'
  BY <1>0, <1>1, <1>2, <1>3 DEF AdmittedCanWork, On, People
<1> QED BY <1>4, <1>5, <1>6, <1>7, <1>8, <1>9

LEMMA JoinKeeps ==
  ASSUME WorkspacesInv, NEW g \in Guests, Join(g)
  PROVE  WorkspacesInv'
<1> USE DEF WorkspacesInv
<1>a. PICK i \in Invites : i = call[g].invite
  <2>1. call[g].op = "join" /\ g \in People
    BY DEF Join, On, People
  <2> QED BY <2>1, CallShapes
<1> DEFINE c == [op |-> "grant", invite |-> i, id |-> joins + 1]
<1>0. /\ g \in People /\ call \in [People -> Calls] /\ call[g] \in Calls /\ call[g].op = "join"
      /\ i \in Invites /\ invite[i].status # "none" /\ joins < MaxJoins /\ joins \in Nat
      /\ MaxJoins \in Nat
  <2>1. /\ g \in People /\ call \in [People -> Calls] /\ call[g] \in Calls /\ call[g].op = "join"
        /\ joins < MaxJoins /\ joins \in Nat /\ MaxJoins \in Nat
    BY WorkspacesAssumption DEF People, TypeOK, Join, On
  <2> QED BY <1>a, <2>1 DEF CallInv
<1>1. g \in BeforeJoin(i) /\ g \notin AfterJoin(i)
      /\ \A j \in Invites : j # i => g \notin BeforeJoin(j) /\ g \notin AfterJoin(j)
  BY <1>a, <1>0 DEF BeforeJoin, AfterJoin
<1>2. UNCHANGED <<role, invite, assigned, cuts, lost, unranked, crossed>>
  BY DEF Join
<1>3. CASE ExistsRelation
  <2>0. Ends(g) /\ UNCHANGED <<member, joins, admitted, taken, said>>
    BY <1>3 DEF Join
  <2>1. /\ call' \in [People -> Calls] /\ call'[g] = Idle /\ call'[g].op = "idle"
        /\ \A q \in People : q # g => call'[q] = call[q]
    BY <1>0, <2>0, EndsTyped
  <2>2. TypeOK'
    BY <1>2, <2>0, <2>1 DEF TypeOK
  <2>3. CallInv'
    BY <1>0, <1>2, <2>0, <2>1 DEF CallInv, On
  <2>4. RowInv'
    BY <1>2, <2>0 DEF RowInv
  <2>5. CountInv'
    <3>1. \A j \in Invites :
            BeforeJoin(j)' \subseteq BeforeJoin(j) /\ AfterJoin(j)' = AfterJoin(j)
      BY <1>0, <2>0, IdleIsCall, GuestsKept DEF Joining, Joined, Ends
    <3> QED BY <1>2, <2>0, <3>1, CountKept DEF Moves
  <2>6. StatusInv'
    BY <1>0, <1>2, <2>0, <2>1 DEF StatusInv, On, People
  <2>7. AdmittedCanWork'
    BY <1>0, <1>2, <2>0, <2>1 DEF AdmittedCanWork, On, People
  <2> QED BY <2>2, <2>3, <2>4, <2>5, <2>6, <2>7
<1>4. CASE ~ExistsRelation
  <2>0. /\ member' = [id |-> joins + 1, status |-> "ACTIVE", via |-> i]
        /\ joins' = joins + 1
        /\ admitted' = [admitted EXCEPT ![i] = @ + 1]
        /\ taken' = {} /\ said' = "ACTIVE"
        /\ Does(g, c)
    BY <1>a, <1>4 DEF Join
  <2>1. c \in Calls /\ c.op = "grant" /\ c.invite = i /\ c.id = joins + 1
    BY <1>0 DEF Calls
  <2>2. /\ call' \in [People -> Calls] /\ call'[g] = c
        /\ \A q \in People : q # g => call'[q] = call[q]
    BY <1>0, <2>0, <2>1, DoesTyped
  <2> HIDE DEF c
  <2>3. TypeOK'
    BY <1>0, <1>2, <2>0, <2>2 DEF TypeOK, Invites
  <2>4. CallInv'
    <3>1. \A q \in People : On(q, "grant") => call[q].id <= joins
      BY DEF CallInv, On
    <3>2. \A q \in People : call[q].op \in {"update", "grant", "joined"} => call[q].id \in Nat
      BY CallShapes
    <3>3. \A q \in People : call'[q].op = "grant" /\ call'[q].id = joins + 1 => q = g
      BY <1>0, <2>2, <3>1, <3>2 DEF On
    <3>4. \A q \in People : call[q].op \in {"update", "grant", "joined"} => call[q].id <= joins + 1
      BY <1>0, <3>2 DEF CallInv
    <3> QED BY <1>0, <1>2, <2>0, <2>1, <2>2, <3>3, <3>4 DEF CallInv, On
  <2>5. RowInv'
    BY <1>0, <1>2, <2>0 DEF RowInv, TypeOK
  <2>6. CountInv'
    <3>1. \A j \in Invites :
            /\ BeforeJoin(j)' = BeforeJoin(j) \ {g}
            /\ AfterJoin(j)' = IF j = i THEN AfterJoin(j) \cup {g} ELSE AfterJoin(j) \ {g}
      BY <1>0, <2>0, <2>1, GuestsMoved DEF Joining, Joined
    <3>2. \A j \in Invites : j # i => BeforeJoin(j)' = BeforeJoin(j) /\ AfterJoin(j)' = AfterJoin(j)
      BY <1>1, <3>1
    <3>3. Cardinality(BeforeJoin(i)') = Cardinality(BeforeJoin(i)) - 1
      <4>1. IsFiniteSet(BeforeJoin(i)) /\ BeforeJoin(i)' = BeforeJoin(i) \ {g}
        BY <1>0, <3>1, GuestsCounted
      <4>2. Cardinality(BeforeJoin(i) \ {g}) = Cardinality(BeforeJoin(i)) - 1
        BY <1>1, <4>1, OneLess
      <4> QED BY <4>1, <4>2
    <3>4. Cardinality(AfterJoin(i)') = Cardinality(AfterJoin(i)) + 1
      <4>1. IsFiniteSet(AfterJoin(i)) /\ AfterJoin(i)' = AfterJoin(i) \cup {g}
        BY <1>0, <3>1, GuestsCounted
      <4>2. Cardinality(AfterJoin(i) \cup {g}) = Cardinality(AfterJoin(i)) + 1
        BY <1>1, <4>1, FS_AddElement
      <4> QED BY <4>1, <4>2
    <3>5. SUFFICES ASSUME NEW j \in Invites
                   PROVE  /\ invite[j].status \in {"open", "expired"} =>
                               admitted'[j] = lost[j] + Cardinality(AfterJoin(j)')
                          /\ invite[j].status \in {"accepted", "gone"} =>
                               admitted'[j] + Cardinality(BeforeJoin(j)')
                                 <= Cardinality(Guests) + lost[j]
      BY <1>2 DEF CountInv
    <3>6. CASE j # i
      BY <1>0, <2>0, <3>2, <3>6 DEF CountInv, TypeOK
    <3>7. CASE j = i
      <4>1. admitted[i] \in Nat /\ lost[i] \in Nat /\ admitted'[i] = admitted[i] + 1
        BY <1>0, <2>0 DEF TypeOK
      <4>2. Cardinality(AfterJoin(i)) \in Nat /\ Cardinality(BeforeJoin(i)) \in Nat
            /\ Cardinality(Guests) \in Nat
        BY <1>0, GuestsCounted
      <4>3. /\ invite[i].status \in {"open", "expired"} =>
                 admitted[i] = lost[i] + Cardinality(AfterJoin(i))
            /\ invite[i].status \in {"accepted", "gone"} =>
                 admitted[i] + Cardinality(BeforeJoin(i)) <= Cardinality(Guests) + lost[i]
        BY <1>0 DEF CountInv
      <4>4. /\ invite[i].status \in {"open", "expired"} =>
                 admitted'[i] = lost[i] + Cardinality(AfterJoin(i)')
            /\ invite[i].status \in {"accepted", "gone"} =>
                 admitted'[i] + Cardinality(BeforeJoin(i)') <= Cardinality(Guests) + lost[i]
        BY <3>3, <3>4, <4>1, <4>2, <4>3
      <4> QED BY <3>7, <4>4
    <3> QED BY <3>6, <3>7
  <2>7. StatusInv'
    <3>1. \A m \in Managers : On(m, "update") => call[m].id <= joins /\ call[m].id \in Nat
      BY CallShapes DEF CallInv, On, People
    <3>2. \A m \in Managers : m # g /\ m \in People
      BY WorkspacesAssumption DEF People
    <3>3. \A m \in Managers : On(m, "update") => call[m].id # joins + 1
      BY <1>0, <3>1
    <3> QED BY <1>2, <2>0, <2>2, <3>2, <3>3 DEF StatusInv, On
  <2>8. AdmittedCanWork'
    <3>1. call'[g].op = "grant" /\ call'[g].id = member'.id
      BY <2>0, <2>1, <2>2
    <3> QED BY <3>1 DEF AdmittedCanWork, On
  <2> QED BY <2>3, <2>4, <2>5, <2>6, <2>7, <2>8
<1> QED BY <1>3, <1>4

\* The grant, made or refused or failed: the call goes on to the acceptance.
LEMMA GrantingKeeps ==
  ASSUME WorkspacesInv, NEW g \in Guests, GrantRole(g) \/ GrantFails(g)
  PROVE  WorkspacesInv'
<1> USE DEF WorkspacesInv
<1> DEFINE c == [call[g] EXCEPT !.op = "joined"]
<1>0. /\ g \in People /\ call \in [People -> Calls] /\ call[g] \in Calls
      /\ call[g].op = "grant" /\ Does(g, c)
  BY DEF People, TypeOK, GrantRole, GrantFails, On
<1>1. c \in Calls /\ c.op = "joined" /\ c.invite = call[g].invite /\ c.id = call[g].id
  BY <1>0, Shapes DEF Joined
<1>a. /\ call[g].invite \in Invites
      /\ call[g].id = member.id => call[g].invite = member.via
  <2>1. call[g].invite \in Invites
    BY <1>0, CallShapes
  <2> QED BY <1>0, <2>1 DEF CallInv, On
<1>2. /\ call' \in [People -> Calls] /\ call'[g] = c
      /\ \A q \in People : q # g => call'[q] = call[q]
  BY <1>0, <1>1, DoesTyped
<1> HIDE DEF c
<1>3. UNCHANGED <<role, invite, member, joins, admitted, lost, taken, said, crossed>>
  BY DEF GrantRole, GrantFails, records, history
<1>b. invite[call[g].invite].role \in Roles /\ role[invite[call[g].invite].role] # "none"
  BY <1>0, <1>a DEF CallInv, RowInv
<1>4. /\ assigned \subseteq assigned' /\ assigned' \subseteq Roles
      /\ unranked' \in BOOLEAN /\ (unranked => unranked')
      /\ call[g].id = member.id =>
           \/ unranked'
           \/ invite[call[g].invite].role \in assigned'
           \/ role[invite[call[g].invite].role] = "gone"
  <2>1. CASE GrantRole(g)
    BY <2>1, <1>b DEF GrantRole, CanAssign, TypeOK, history
  <2>2. CASE GrantFails(g)
    BY <2>2 DEF GrantFails, TypeOK, records
  <2> QED BY <2>1, <2>2
<1>5. TypeOK'
  BY <1>2, <1>3, <1>4 DEF TypeOK
<1>6. CallInv'
  BY <1>0, <1>1, <1>2, <1>3 DEF CallInv, On
<1>7. RowInv'
  BY <1>3 DEF RowInv
<1>8. CountInv'
  <2>1. \A i \in Invites :
          BeforeJoin(i)' \subseteq BeforeJoin(i) /\ AfterJoin(i)' = AfterJoin(i)
    BY <1>0, <1>1, GuestsKept DEF Joining, Joined
  <2> QED BY <1>3, <2>1, CountKept DEF Moves
<1>9. StatusInv'
  BY <1>0, <1>1, <1>2, <1>3 DEF StatusInv, On, People
<1>10. AdmittedCanWork'
  <2>1. CASE call[g].id = member.id
    BY <1>a, <1>3, <1>4, <2>1 DEF AdmittedCanWork
  <2>2. CASE call[g].id # member.id
    <3>1. \A h \in Guests : On(h, "grant") /\ call[h].id = member.id => On(h, "grant")' /\ call'[h].id = member.id
      BY <1>2, <2>2 DEF On, People
    <3> QED BY <1>3, <1>4, <3>1 DEF AdmittedCanWork
  <2> QED BY <2>1, <2>2
<1> QED BY <1>5, <1>6, <1>7, <1>8, <1>9, <1>10

LEMMA AcceptedKeeps ==
  ASSUME WorkspacesInv, NEW g \in Guests, AcceptInvite(g)
  PROVE  WorkspacesInv'
<1> USE DEF WorkspacesInv
<1>0. /\ g \in People /\ call \in [People -> Calls] /\ call[g] \in Calls
      /\ call[g].op \in {"mark", "joined"}
  BY DEF People, TypeOK, AcceptInvite
<1>a. PICK i \in Invites : i = call[g].invite
  BY <1>0, CallShapes
<1>b. invite[i].status # "none"
  BY <1>0, <1>a DEF CallInv
<1>1. /\ call' \in [People -> Calls] /\ call'[g] = Idle /\ call'[g].op = "idle"
      /\ \A q \in People : q # g => call'[q] = call[q]
  BY <1>0, EndsTyped DEF AcceptInvite
<1>2. UNCHANGED <<role, member, joins, assigned, cuts, admitted, lost, unranked, taken, said, crossed>>
  BY DEF AcceptInvite, history
<1>3. /\ invite' \in [Invites -> [status : {"none", "open", "expired", "accepted", "gone"},
                                  role : Roles \cup {"none"}]]
      /\ \A j \in Invites : j # i => invite'[j] = invite[j]
      /\ invite'[i].role = invite[i].role
      /\ invite'[i].status = IF invite[i].status = "gone" THEN "gone" ELSE "accepted"
  <2> PICK y : y = [invite[i] EXCEPT !.status = "accepted"]
    OBVIOUS
  <2>1. invite[i] \in [status : {"none", "open", "expired", "accepted", "gone"},
                      role : Roles \cup {"none"}]
    BY DEF TypeOK
  <2>2. /\ y \in [status : {"none", "open", "expired", "accepted", "gone"},
                   role : Roles \cup {"none"}]
        /\ y.status = "accepted" /\ y.role = invite[i].role
    BY <2>1
  <2>3. invite' = IF invite[i].status = "gone" THEN invite ELSE [invite EXCEPT ![i] = y]
    BY <1>a DEF AcceptInvite, MarkAccepted
  <2> QED
    BY <2>2, <2>3 DEF TypeOK
<1>4. TypeOK'
  BY <1>1, <1>2, <1>3 DEF TypeOK
<1>5. CallInv'
  <2>1. \A j \in Invites : invite[j].status # "none" => invite'[j].status # "none"
    BY <1>3
  <2> QED BY <1>0, <1>1, <1>2, <2>1, CallShapes DEF CallInv, On
<1>6. RowInv'
  BY <1>b, <1>2, <1>3 DEF RowInv
<1>7. CountInv'
  <2>0. \A j \in Invites :
          /\ BeforeJoin(j)' = BeforeJoin(j) \ {g} /\ AfterJoin(j)' = AfterJoin(j) \ {g}
          /\ g \notin BeforeJoin(j)
          /\ j # i => g \notin AfterJoin(j)
    <3>1. \A j \in Invites :
            BeforeJoin(j)' = BeforeJoin(j) \ {g} /\ AfterJoin(j)' = AfterJoin(j) \ {g}
      BY <1>0, IdleIsCall, GuestsMoved DEF AcceptInvite, Ends, Joining, Joined
    <3>2. \A j \in Invites : g \notin BeforeJoin(j) /\ (j # i => g \notin AfterJoin(j))
      BY <1>0, <1>a DEF BeforeJoin, AfterJoin
    <3> QED BY <3>1, <3>2
  <2>1. SUFFICES ASSUME NEW j \in Invites
                 PROVE  /\ invite'[j].status \in {"open", "expired"} =>
                             admitted[j] = lost[j] + Cardinality(AfterJoin(j)')
                        /\ invite'[j].status \in {"accepted", "gone"} =>
                             admitted[j] + Cardinality(BeforeJoin(j)')
                               <= Cardinality(Guests) + lost[j]
    BY <1>2 DEF CountInv
  <2>2. BeforeJoin(j)' = BeforeJoin(j) /\ (j # i => AfterJoin(j)' = AfterJoin(j))
    BY <2>0
  <2>3. CASE j # i
    BY <1>3, <2>2, <2>3 DEF CountInv
  <2>4. CASE j = i
    <3>1. /\ Cardinality(Guests) \in Nat /\ Cardinality(BeforeJoin(j)) \in Nat
          /\ Cardinality(AfterJoin(j)) \in Nat
          /\ Cardinality(BeforeJoin(j)) + Cardinality(AfterJoin(j)) <= Cardinality(Guests)
      BY GuestsCounted
    <3>2. admitted[j] \in Nat /\ lost[j] \in Nat
      BY DEF TypeOK
    <3>3. invite[j].status \in {"open", "expired", "accepted", "gone"}
      BY <1>b, <2>4 DEF TypeOK
    <3>4. admitted[j] + Cardinality(BeforeJoin(j)) <= Cardinality(Guests) + lost[j]
      BY <3>1, <3>2, <3>3 DEF CountInv
    <3> QED BY <1>3, <2>2, <2>4, <3>4
  <2> QED BY <2>3, <2>4
<1>8. StatusInv'
  BY <1>0, <1>1, <1>2 DEF StatusInv, On, People
<1>9. AdmittedCanWork'
  <2>1. member # Nobody => invite'[member.via].role = invite[member.via].role
    BY <1>3 DEF RowInv
  <2> QED BY <1>0, <1>1, <1>2, <2>1 DEF AdmittedCanWork, On, People
<1> QED BY <1>4, <1>5, <1>6, <1>7, <1>8, <1>9

LEMMA CutOffKeeps ==
  ASSUME WorkspacesInv, NEW p \in People, CutOff(p)
  PROVE  WorkspacesInv'
<1> USE DEF WorkspacesInv
<1>0. call \in [People -> Calls] /\ call[p] \in Calls
  BY DEF TypeOK
<1>1. /\ call' \in [People -> Calls] /\ call'[p] = Idle /\ call'[p].op = "idle"
      /\ \A q \in People : q # p => call'[q] = call[q]
  BY <1>0, EndsTyped DEF CutOff
<1>2. UNCHANGED <<role, invite, member, joins, assigned, admitted, taken, said, crossed>>
  BY DEF CutOff, records
<1>3. /\ lost' \in [Invites -> Nat]
      /\ unranked' \in BOOLEAN /\ (unranked => unranked')
      /\ On(p, "grant") /\ call[p].id = member.id => unranked'
  <2>1. lost' \in [Invites -> Nat]
    <3>1. call[p].op \in {"grant", "joined"} => call[p].invite \in Invites
      BY CallShapes
    <3> QED BY <3>1 DEF CutOff, TypeOK
  <2> QED BY <2>1 DEF CutOff, TypeOK
<1>4. TypeOK'
  BY <1>1, <1>2, <1>3 DEF TypeOK
<1>5. CallInv'
  BY <1>0, <1>1, <1>2 DEF CallInv, On
<1>6. RowInv'
  <2>1. \A i \in Invites : invite[i].status = "none" => lost'[i] = lost[i]
    <3>1. call[p].op \in {"grant", "joined"} =>
            call[p].invite \in Invites /\ invite[call[p].invite].status # "none"
      BY CallShapes DEF CallInv
    <3> QED BY <3>1 DEF CutOff, TypeOK
  <2> QED BY <1>2, <2>1 DEF RowInv
<1>7. CountInv'
  <2>1. CASE call[p].op \in Joined
    <3>a. PICK i \in Invites : i = call[p].invite
      BY <2>1, CallShapes DEF Joined
    <3>b. p \in Guests /\ \A j \in Invites : lost'[j] = IF j = i THEN lost[j] + 1 ELSE lost[j]
      BY <2>1, <3>a DEF CallInv, CutOff, TypeOK, Joined
    <3>1. \A j \in Invites :
            /\ BeforeJoin(j)' = BeforeJoin(j) \ {p} /\ AfterJoin(j)' = AfterJoin(j) \ {p}
            /\ p \notin BeforeJoin(j)
            /\ p \in AfterJoin(j) <=> j = i
      <4>1. \A j \in Invites :
              BeforeJoin(j)' = BeforeJoin(j) \ {p} /\ AfterJoin(j)' = AfterJoin(j) \ {p}
        BY <1>0, <3>b, IdleIsCall, GuestsMoved DEF CutOff, Ends, Joining, Joined
      <4>2. \A j \in Invites : p \notin BeforeJoin(j) /\ (p \in AfterJoin(j) <=> j = i)
        BY <2>1, <3>a, <3>b DEF BeforeJoin, AfterJoin, Joined
      <4> QED BY <4>1, <4>2
    <3>2. SUFFICES ASSUME NEW j \in Invites
                   PROVE  /\ invite[j].status \in {"open", "expired"} =>
                               admitted[j] = lost'[j] + Cardinality(AfterJoin(j)')
                          /\ invite[j].status \in {"accepted", "gone"} =>
                               admitted[j] + Cardinality(BeforeJoin(j)')
                                 <= Cardinality(Guests) + lost'[j]
      BY <1>2 DEF CountInv
    <3>3. BeforeJoin(j)' = BeforeJoin(j) /\ (j # i => AfterJoin(j)' = AfterJoin(j))
      BY <3>1
    <3>4. CASE j # i
      BY <3>b, <3>3, <3>4 DEF CountInv
    <3>5. CASE j = i
      <4>1. Cardinality(AfterJoin(j)') = Cardinality(AfterJoin(j)) - 1
        <5>1. /\ IsFiniteSet(AfterJoin(j)) /\ AfterJoin(j)' = AfterJoin(j) \ {p}
              /\ p \in AfterJoin(j)
          BY <3>1, <3>5, GuestsCounted
        <5>2. Cardinality(AfterJoin(j) \ {p}) = Cardinality(AfterJoin(j)) - 1
          BY <5>1, OneLess
        <5> QED BY <5>1, <5>2
      <4>2. /\ Cardinality(Guests) \in Nat /\ Cardinality(BeforeJoin(j)) \in Nat
            /\ Cardinality(AfterJoin(j)) \in Nat
        BY GuestsCounted
      <4>3. admitted[j] \in Nat /\ lost[j] \in Nat /\ lost'[j] = lost[j] + 1
        BY <3>b, <3>5 DEF TypeOK
      <4>4. /\ invite[j].status \in {"open", "expired"} =>
                 admitted[j] = lost[j] + Cardinality(AfterJoin(j))
            /\ invite[j].status \in {"accepted", "gone"} =>
                 admitted[j] + Cardinality(BeforeJoin(j)) <= Cardinality(Guests) + lost[j]
        BY DEF CountInv
      <4> QED BY <3>3, <4>1, <4>2, <4>3, <4>4
    <3> QED BY <3>4, <3>5
  <2>2. CASE call[p].op \notin Joined
    <3>1. lost' = lost
      BY <2>2 DEF CutOff, Joined
    <3>2. \A i \in Invites :
            BeforeJoin(i)' \subseteq BeforeJoin(i) /\ AfterJoin(i)' = AfterJoin(i)
      BY <1>0, <2>2, IdleIsCall, GuestsKept DEF CutOff, Ends, Joining, Joined
    <3> QED BY <1>2, <3>1, <3>2, CountKept DEF Moves
  <2> QED BY <2>1, <2>2
<1>8. StatusInv'
  BY <1>0, <1>1, <1>2 DEF StatusInv, On, People
<1>9. AdmittedCanWork'
  BY <1>0, <1>1, <1>2, <1>3 DEF AdmittedCanWork, On, People
<1> QED BY <1>4, <1>5, <1>6, <1>7, <1>8, <1>9

-----------------------------------------------------------------------------
(* The theorems.                                                           *)

LEMMA WorkspacesInit ==
  ASSUME Init
  PROVE  WorkspacesInv
<1> USE DEF Init
<1>1. TypeOK
  <2>1. 0 \in 0..joins /\ 0 \in 0..MaxJoins /\ 0 \in 0..MaxInvites
    BY WorkspacesAssumption
  <2> QED BY <2>1 DEF TypeOK, Nobody, Calls
<1>2. CallInv /\ RowInv /\ CountInv /\ StatusInv /\ AdmittedCanWork
  BY DEF CallInv, RowInv, CountInv, StatusInv, AdmittedCanWork, On, Idle, Nobody, People
<1> QED BY <1>1, <1>2 DEF WorkspacesInv

LEMMA WorkspacesStep ==
  ASSUME WorkspacesInv, [Next]_vars
  PROVE  WorkspacesInv'
<1> USE DEF WorkspacesInv
<1>1. ASSUME NEW m \in Managers, Manage(m)
      PROVE  WorkspacesInv'
  <2>0. m \in People /\ call \in [People -> Calls] /\ call[m] \in Calls
    BY DEF People, TypeOK
  <2>1. ASSUME NEW r \in Roles, AskAssign(m, r)
        PROVE  WorkspacesInv'
    <3>1. [op |-> "assign", role |-> r] \in Calls
      BY DEF Calls
    <3> QED BY <2>1, <3>1, LookingKeeps DEF AskAssign, records, TypeOK
  <2>2. ASSUME NEW r \in Roles, AskInvite(m, r)
        PROVE  WorkspacesInv'
    <3>1. [op |-> "look", role |-> r] \in Calls
      BY DEF Calls
    <3> QED BY <2>2, <3>1, LookingKeeps DEF AskInvite, records, TypeOK
  <2>3. ASSUME NEW i \in Invites, AskRevoke(m, i)
        PROVE  WorkspacesInv'
    <3>1. [op |-> "revoke", invite |-> i] \in Calls
      BY DEF Calls
    <3> QED BY <2>3, <3>1, LookingKeeps DEF AskRevoke, records, TypeOK
  <2>4. CASE AskUpdate(m)
    BY <2>4, UpdatingKeeps
  <2>5. CASE UpdateMember(m)
    BY <2>5, UpdatedKeeps
  <2>6. CASE AssignRole(m)
    <3>1. call[m].role \in Roles
      BY <2>0, <2>6, Shapes DEF AssignRole, On
    <3>2. assigned' \subseteq Roles /\ assigned \subseteq assigned'
      BY <2>6, <3>1 DEF AssignRole, TypeOK
    <3> QED BY <2>6, <3>2, IdleIsCall, LookingKeeps DEF AssignRole, Ends
  <2>7. CASE LookForPending(m)
    <3>1. CASE Does(m, Idle)
      BY <2>7, <3>1, IdleIsCall, LookingKeeps DEF LookForPending, records, TypeOK
    <3>2. CASE Does(m, [call[m] EXCEPT !.op = "invite"])
      <4>1. /\ [call[m] EXCEPT !.op = "invite"] \in Calls
            /\ [call[m] EXCEPT !.op = "invite"].op = "invite"
        BY <2>0, <2>7, Shapes DEF LookForPending, On
      <4> QED BY <2>7, <3>2, <4>1, LookingKeeps DEF LookForPending, records, TypeOK
    <3> QED BY <2>7, <3>1, <3>2 DEF LookForPending, Ends
  <2>8. CASE CreateInvite(m) \/ RevokeInvite(m)
    BY <2>8, InvitingKeeps
  <2> QED BY <1>1, <2>1, <2>2, <2>3, <2>4, <2>5, <2>6, <2>7, <2>8 DEF Manage
<1>2. CASE ManageAtOnce \/ \E i \in Invites : InviteExpires(i)
  BY <1>2, AtOnceKeeps
<1>3. ASSUME NEW g \in Guests, Accept(g)
      PROVE  WorkspacesInv'
  BY <1>3, AskingKeeps, LookedKeeps, JoinKeeps, GrantingKeeps, AcceptedKeeps DEF Accept
<1>4. ASSUME NEW p \in People, CutOff(p)
      PROVE  WorkspacesInv'
  BY <1>4, CutOffKeeps
<1>5. CASE UNCHANGED vars
  <2> USE <1>5 DEF vars, records, history
  <2>1. TypeOK' /\ RowInv'
    BY DEF TypeOK, RowInv
  <2>2. CallInv' /\ StatusInv' /\ AdmittedCanWork'
    BY DEF CallInv, StatusInv, AdmittedCanWork, On
  <2>3. CountInv'
    BY DEF CountInv, BeforeJoin, AfterJoin
  <2> QED BY <2>1, <2>2, <2>3
<1> QED BY <1>1, <1>2, <1>3, <1>4, <1>5 DEF Next

\* The inductive invariant of the calls and the rows they leave.
THEOREM WorkspacesInvariant == Spec => []WorkspacesInv
<1>1. Init => WorkspacesInv
  BY WorkspacesInit
<1>2. WorkspacesInv /\ [Next]_vars => WorkspacesInv'
  BY WorkspacesStep
<1> QED BY <1>1, <1>2, PTL DEF Spec

\* AcceptInvite: however requests that accept an invite overlap and break off,
\* it makes one membership for each of them and for each that broke off at most.
THEOREM InvitesAdmitOnce == Spec => []InviteAdmitsOnce
<1>1. WorkspacesInv => InviteAdmitsOnce
  <2> SUFFICES ASSUME WorkspacesInv, NEW i \in Invites
               PROVE  admitted[i] <= Cardinality(Guests) + lost[i]
    BY DEF InviteAdmitsOnce
  <2>1. /\ Cardinality(Guests) \in Nat /\ Cardinality(BeforeJoin(i)) \in Nat
        /\ Cardinality(AfterJoin(i)) \in Nat
        /\ Cardinality(BeforeJoin(i)) + Cardinality(AfterJoin(i)) <= Cardinality(Guests)
    BY GuestsCounted
  <2>2. /\ admitted[i] \in Nat /\ lost[i] \in Nat
        /\ invite[i].status \in {"none", "open", "expired", "accepted", "gone"}
    BY DEF WorkspacesInv, TypeOK
  <2> QED BY <2>1, <2>2 DEF WorkspacesInv, CountInv, RowInv
<1> QED BY <1>1, WorkspacesInvariant, PTL

\* UpdateMember writes back what it read; without a second one beside it no
\* edit undoes what was asked for.
THEOREM DeactivationsHold == Spec => []DeactivationHolds
<1>1. WorkspacesInv => DeactivationHolds
  BY DEF WorkspacesInv, StatusInv, DeactivationHolds
<1> QED BY <1>1, WorkspacesInvariant, PTL

\* The role of an invite reaches the member it made, whatever managers do to
\* roles, invites and memberships meanwhile, unless the grant itself was lost.
THEOREM AdmittedWork == Spec => []AdmittedCanWork
<1>1. WorkspacesInv => AdmittedCanWork
  BY DEF WorkspacesInv
<1> QED BY <1>1, WorkspacesInvariant, PTL

-----------------------------------------------------------------------------
(* The identifiers of an entity that is claimed.                           *)

IdentitiesSpec == IdentitiesInit /\ [][IdentitiesNext]_identityVars

Writing == \E r \in Forms : form[r].does \in Writes

\* While a request that may write is on its way every claim in review is
\* excused.
IdentitiesInv ==
  /\ claim \in [Claimants -> {"none"} \cup Open \cup InReview]
  /\ form \in [Forms -> [by : Claimants \cup {"nobody"}, does : Writes \cup Reads \cup {"nothing"}]]
  /\ DOMAIN filed = Claimants
  /\ Writing => \A u \in Claimants : claim[u] \in InReview => u \in excused
  /\ FrozenInReview

LEMMA AuthorizeRequestKeeps ==
  ASSUME IdentitiesInv, NEW r \in Forms, NEW u \in Claimants, AuthorizeRequest(r, u)
  PROVE  IdentitiesInv'
<1>1. PICK does \in Writes \cup Reads :
        /\ does \in Writes => claim[u] \in Open
        /\ form' = [form EXCEPT ![r] = [by |-> u, does |-> does]]
        /\ excused' = IF does \in Writes THEN excused \cup Others(u) ELSE excused
        /\ UNCHANGED <<claim, legal, aliases, filed>>
  BY DEF AuthorizeRequest, authorizeEntityWrite, authorizeEntity, UserCanManageClaimEntity
<1>2. form' \in [Forms -> [by : Claimants \cup {"nobody"}, does : Writes \cup Reads \cup {"nothing"}]]
  BY <1>1 DEF IdentitiesInv
<1>3. ASSUME Writing', NEW v \in Claimants, claim[v] \in InReview
      PROVE  v \in excused'
  <2>1. CASE does \in Writes
    <3>1. v # u
      BY <1>1, <1>3, <2>1 DEF Open, InReview
    <3> QED
      BY <1>1, <1>3, <2>1, <3>1 DEF Others
  <2>2. CASE does \notin Writes
    <3>1. Writing
      BY <1>1, <1>3, <2>2 DEF Writing, IdentitiesInv
    <3> QED
      BY <1>1, <1>3, <2>2, <3>1 DEF IdentitiesInv
  <2> QED
    BY <2>1, <2>2
<1>4. FrozenInReview'
  BY <1>1 DEF IdentitiesInv, FrozenInReview
<1> QED
  BY <1>1, <1>2, <1>3, <1>4 DEF IdentitiesInv

\* What an authorized request writes, it writes to what is excused.
LEMMA ServedKeeps ==
  ASSUME IdentitiesInv, NEW r \in Forms, NEW does \in Writes \cup Reads, Serves(r, does),
         does \in Writes \/ UNCHANGED <<legal, aliases>>
  PROVE  IdentitiesInv'
<1>1. /\ form[r].does = does /\ form' = [form EXCEPT ![r] = Blank]
      /\ UNCHANGED <<claim, filed, excused>>
  BY DEF Serves
<1>2. form' \in [Forms -> [by : Claimants \cup {"nobody"}, does : Writes \cup Reads \cup {"nothing"}]]
  BY <1>1 DEF IdentitiesInv, Blank
<1>3. Writing' => Writing
  BY <1>1 DEF IdentitiesInv, Writing, Blank, Writes
<1>4. FrozenInReview'
  <2>1. CASE does \in Writes
    <3>1. Writing
      BY <1>1, <2>1 DEF Writing
    <3> QED
      BY <1>1, <3>1 DEF IdentitiesInv, FrozenInReview
  <2>2. CASE UNCHANGED <<legal, aliases>>
    BY <1>1, <2>2 DEF IdentitiesInv, FrozenInReview
  <2> QED
    BY <2>1, <2>2
<1> QED
  BY <1>1, <1>2, <1>3, <1>4 DEF IdentitiesInv

LEMMA ClaimGoesKeeps ==
  ASSUME IdentitiesInv, NEW u \in Claimants, NEW from,
         NEW to \in {"none"} \cup Open \cup InReview, ClaimGoes(u, from, to),
         claim[u] = "none" => to \notin InReview
  PROVE  IdentitiesInv'
<1>1. claim' = [claim EXCEPT ![u] = to] /\ UNCHANGED <<legal, aliases, form>>
  BY DEF ClaimGoes
<1>2. /\ claim' \in [Claimants -> {"none"} \cup Open \cup InReview]
      /\ claim'[u] = to /\ \A v \in Claimants \ {u} : claim'[v] = claim[v]
  BY <1>1 DEF IdentitiesInv
<1>3. Writing' <=> Writing
  BY <1>1 DEF Writing
<1>4. CASE claim[u] \in Open /\ to \in InReview
  <2>1. /\ filed' = [filed EXCEPT ![u] = <<legal, aliases>>]
        /\ excused' = IF Writing THEN excused \cup {u} ELSE excused \ {u}
    BY <1>4 DEF ClaimGoes, Writing
  <2>2. /\ DOMAIN filed' = Claimants /\ filed'[u] = <<legal, aliases>>
        /\ \A v \in Claimants \ {u} : filed'[v] = filed[v]
    BY <2>1 DEF IdentitiesInv
  <2>3. FrozenInReview'
    <3> SUFFICES ASSUME NEW v \in Claimants \ excused', claim'[v] \in InReview
                 PROVE  <<legal, aliases>> = filed'[v]
      BY <1>1 DEF FrozenInReview
    <3>1. CASE v = u
      BY <2>2, <3>1
    <3>2. CASE v # u
      BY <1>2, <2>1, <2>2, <3>2 DEF IdentitiesInv, FrozenInReview
    <3> QED
      BY <3>1, <3>2
  <2> QED
    BY <1>1, <1>2, <1>3, <2>1, <2>2, <2>3 DEF IdentitiesInv
<1>5. CASE ~(claim[u] \in Open /\ to \in InReview)
  <2>1. UNCHANGED <<filed, excused>>
    BY <1>5 DEF ClaimGoes
  <2>2. \A v \in Claimants : claim'[v] \in InReview => claim[v] \in InReview
    BY <1>2, <1>5 DEF IdentitiesInv
  <2> QED
    BY <1>1, <1>2, <1>3, <2>1, <2>2 DEF IdentitiesInv, FrozenInReview
<1> QED
  BY <1>4, <1>5

LEMMA IdentitiesStep == IdentitiesInv /\ [IdentitiesNext]_identityVars => IdentitiesInv'
<1> SUFFICES ASSUME IdentitiesInv, [IdentitiesNext]_identityVars PROVE IdentitiesInv'
  OBVIOUS
<1>1. ASSUME NEW r \in Forms, NEW u \in Claimants, AuthorizeRequest(r, u)
      PROVE  IdentitiesInv'
  BY <1>1, AuthorizeRequestKeeps
<1>2. ASSUME NEW r \in Forms,
             AddLegalID(r) \/ UpdateLegalID(r) \/ DeleteLegalID(r) \/ AddAlias(r) \/ DeleteAlias(r)
      PROVE  IdentitiesInv'
  <2>1. PICK does \in Writes : Serves(r, does)
    BY <1>2 DEF AddLegalID, UpdateLegalID, DeleteLegalID, AddAlias, DeleteAlias, Writes
  <2> QED
    BY <2>1, ServedKeeps
<1>3. ASSUME NEW r \in Forms,
             GetLegalIDs(r) \/ GetAliases(r) \/ GetVerificationStatus(r) \/ FindDuplicates(r)
      PROVE  IdentitiesInv'
  <2>1. PICK does \in Reads : Serves(r, does) /\ UNCHANGED <<legal, aliases>>
    BY <1>3 DEF GetLegalIDs, GetAliases, GetVerificationStatus, FindDuplicates, Reads
  <2> QED
    BY <2>1, ServedKeeps
<1>4. ASSUME NEW r \in Forms, FormFails(r)
      PROVE  IdentitiesInv'
  <2>1. Serves(r, form[r].does) /\ UNCHANGED <<legal, aliases>>
    BY <1>4 DEF FormFails
  <2>2. form[r].does \in Writes \cup Reads \cup {"nothing"}
    BY DEF IdentitiesInv
  <2>3. CASE form[r].does \in Writes \cup Reads
    BY <2>1, <2>3, ServedKeeps
  <2>4. CASE form[r].does = "nothing"
    <3>1. /\ form' = [form EXCEPT ![r] = Blank] /\ UNCHANGED <<claim, filed, excused, legal, aliases>>
      BY <2>1 DEF Serves
    <3>2. form' \in [Forms -> [by : Claimants \cup {"nobody"}, does : Writes \cup Reads \cup {"nothing"}]]
      BY <3>1 DEF IdentitiesInv, Blank
    <3>3. Writing' => Writing
      BY <3>1 DEF IdentitiesInv, Writing, Blank, Writes
    <3> QED
      BY <3>1, <3>2, <3>3 DEF IdentitiesInv, FrozenInReview
  <2> QED
    BY <2>2, <2>3, <2>4
<1>5. ASSUME NEW u \in Claimants,
             CreateClaim(u) \/ SubmitClaim(u) \/ ReviewClaim(u) \/ RejectClaim(u) \/ DisputeClaim(u)
      PROVE  IdentitiesInv'
  <2>1. PICK from, to :
          /\ ClaimGoes(u, from, to) /\ to \in Open \cup InReview
          /\ to \in InReview => "none" \notin from
    BY <1>5 DEF CreateClaim, SubmitClaim, ReviewClaim, RejectClaim, DisputeClaim, Left, Open, InReview
  <2>2. claim[u] = "none" => to \notin InReview
    BY <2>1 DEF ClaimGoes
  <2> QED
    BY <2>1, <2>2, ClaimGoesKeeps
<1>6. CASE UNCHANGED identityVars
  BY <1>6 DEF identityVars, IdentitiesInv, FrozenInReview, Writing
<1> QED
  BY <1>1, <1>2, <1>3, <1>4, <1>5, <1>6 DEF IdentitiesNext

\* What a reviewer sees is what was submitted, unless a request let through
\* before comes later or an open claim of somebody else lets one through
\* (internal/identity/service.go authorizeEntity).
THEOREM IdentitiesFrozen == IdentitiesSpec => []FrozenInReview
<1>1. IdentitiesInit => IdentitiesInv
  BY DEF IdentitiesInit, IdentitiesInv, FrozenInReview, Blank, InReview, Writing, Writes
<1>2. IdentitiesInv => FrozenInReview
  BY DEF IdentitiesInv
<1> QED
  BY <1>1, <1>2, IdentitiesStep, PTL DEF IdentitiesSpec

-----------------------------------------------------------------------------
(* A row that is edited.                                                   *)

EditsSpec == EditsInit /\ [][EditsNext]_editVars

Tables == {"entity", "meta", "plan", "item", "account", "role", "profile"}
Intents == [new : Rows, asked : SUBSET Fields, stale : SUBSET Fields]

\* An edit about to write has, in every column it was not asked for, what the
\* column was last asked to be, unless that has come after its read or was
\* reverted already.
IntentInv ==
  \A p \in Editors :
    edit[p] # Ready =>
      /\ record # None \/ table = "meta"
      /\ table = "meta" => edit[p].asked = Fields
      /\ table = "item" => edit[p].asked \subseteq {"name"}
      /\ record \in Rows =>
           \A f \in Fields \ edit[p].asked :
             edit[p].new[f] # meant[f] =>
               f \in edit[p].stale \cup reverted \/ Resets(f, edit[p].new[f])

EditsInv ==
  /\ table \in Tables
  /\ record \in Rows \cup {None, Gone}
  /\ table = "entity" => record \in Rows
  /\ record \in Rows => meant \in Rows
  /\ edit \in [Editors -> Intents \cup {Ready}]
  /\ IntentInv
  /\ UnaskedStays

\* A row is not missing, and an edit about to write is not ready.
LEMMA RowsAreThere ==
  /\ None \notin Rows /\ Gone \notin Rows /\ None # Gone
  /\ \A p \in Intents : p # Ready
<1>1. \A r \in Rows : DOMAIN r = {"name", "extra"}
  BY DEF Rows, Fields
<1>2. DOMAIN None = {"missing"} /\ DOMAIN Gone = {"deleted"}
  BY DEF None, Gone
<1>3. Ready.new = None
  BY DEF Ready
<1>4. {"missing"} # {"name", "extra"} /\ {"deleted"} # {"name", "extra"} /\ {"missing"} # {"deleted"}
  OBVIOUS
<1>5. None \notin Rows /\ Gone \notin Rows /\ None # Gone
  BY <1>1, <1>2, <1>4
<1>6. \A p \in Intents : p # Ready
  BY <1>3, <1>5 DEF Intents
<1> QED
  BY <1>5, <1>6

LEMMA MergedRows ==
  ASSUME NEW old \in Rows, NEW ask \in Asks
  PROVE  /\ DOMAIN ask \subseteq Fields
         /\ Overlaid(old, ask) \in Rows /\ Refilled(ask) \in Rows
         /\ MergeAccount(old, ask) \in Rows
         /\ \A f \in Fields \ DOMAIN ask : Overlaid(old, ask)[f] = old[f]
         /\ \A f \in Fields \ DOMAIN ask :
              \/ MergeAccount(old, ask)[f] = old[f]
              \/ f = "extra" /\ MergeAccount(old, ask)[f] = Usual
<1>1. DOMAIN ask \subseteq Fields /\ \A f \in DOMAIN ask : ask[f] \in Values
  BY DEF Asks
<1>2. /\ Overlaid(old, ask) \in Rows /\ Refilled(ask) \in Rows
      /\ \A f \in Fields \ DOMAIN ask : Overlaid(old, ask)[f] = old[f]
  BY <1>1 DEF Overlaid, Refilled, Rows, Values, Usual
<1>3. /\ Refilled(ask).extra \in Values
      /\ "extra" \notin DOMAIN ask => Refilled(ask).extra = Usual
  BY <1>2 DEF Rows, Fields, Refilled
<1>4. /\ MergeAccount(old, ask) \in Rows
      /\ \A f \in Fields \ {"extra"} : MergeAccount(old, ask)[f] = Overlaid(old, ask)[f]
      /\ "extra" \notin DOMAIN ask => MergeAccount(old, ask)["extra"] = Usual
  <2> PICK o, v : o = Overlaid(old, ask) /\ v = Refilled(ask).extra
    OBVIOUS
  <2>1. MergeAccount(old, ask) = [o EXCEPT !["extra"] = v]
    BY DEF MergeAccount
  <2>2. MergeAccount(old, ask)["extra"] = v /\ MergeAccount(old, ask) \in Rows
    BY <1>2, <1>3, <2>1 DEF Rows, Fields
  <2>3. \A f \in Fields \ {"extra"} : MergeAccount(old, ask)[f] = Overlaid(old, ask)[f]
    BY <1>2, <2>1 DEF Rows
  <2> QED
    BY <1>3, <2>2, <2>3
<1> QED
  BY <1>1, <1>2, <1>4

LEMMA IntendsKeeps ==
  ASSUME EditsInv, NEW p \in Editors, NEW new \in Rows, NEW wanted \in SUBSET Fields,
         Intends(p, new, wanted), record # None \/ table = "meta",
         table = "meta" => wanted = Fields, table = "item" => wanted \subseteq {"name"},
         record \in Rows => \A f \in Fields \ wanted : new[f] = record[f] \/ Resets(f, new[f])
  PROVE  EditsInv'
<1> PICK y : y = [new |-> new, asked |-> wanted, stale |-> {}]
  OBVIOUS
<1>1. y \in Intents /\ y.new = new /\ y.asked = wanted /\ y.stale = {}
  BY DEF Intents
<1>2. edit' = [edit EXCEPT ![p] = y] /\ UNCHANGED <<table, record, meant, reverted>>
  BY DEF Intends
<1>3. /\ edit' \in [Editors -> Intents \cup {Ready}] /\ edit'[p] = y
      /\ \A q \in Editors \ {p} : edit'[q] = edit[q]
  BY <1>1, <1>2 DEF EditsInv
<1>4. UnaskedStays'
  BY <1>2 DEF EditsInv, UnaskedStays, Resets
<1>5. IntentInv'
  <2>1. record \in Rows =>
          \A f \in Fields \ wanted : new[f] # meant[f] => f \in reverted \/ Resets(f, new[f])
    BY DEF EditsInv, UnaskedStays
  <2> SUFFICES ASSUME NEW q \in Editors, edit'[q] # Ready
               PROVE  /\ record # None \/ table = "meta"
                      /\ table = "meta" => edit'[q].asked = Fields
                      /\ table = "item" => edit'[q].asked \subseteq {"name"}
                      /\ record \in Rows =>
                           \A f \in Fields \ edit'[q].asked :
                             edit'[q].new[f] # meant[f] =>
                               f \in edit'[q].stale \cup reverted \/ Resets(f, edit'[q].new[f])
    BY <1>2 DEF IntentInv, Resets
  <2>2. CASE q = p
    BY <1>1, <1>3, <2>1, <2>2
  <2>3. CASE q # p
    BY <1>3, <2>3 DEF EditsInv, IntentInv
  <2> QED
    BY <2>2, <2>3
<1> QED
  BY <1>2, <1>3, <1>4, <1>5 DEF EditsInv

LEMMA AskKeeps ==
  ASSUME EditsInv, NEW p \in Editors,
         \/ AskUpdateEntity(p) \/ AskUpdateEntityMeta(p) \/ AskUpdatePlan(p)
         \/ AskUpdateItem(p) \/ AskUpdateAccount(p) \/ AskUpdateRole(p) \/ AskUpdateProfile(p)
  PROVE  EditsInv'
<1>1. CASE AskUpdateEntityMeta(p) \/ AskUpdateProfile(p)
  <2>1. PICK ask \in Asks : Intends(p, Refilled(ask), Fields)
    BY <1>1 DEF AskUpdateEntityMeta, AskUpdateProfile
  <2>2. table = "meta" \/ (table = "profile" /\ record \in Rows)
    BY <1>1 DEF AskUpdateEntityMeta, AskUpdateProfile
  <2>3. Refilled(ask) \in Rows
    <3>1. \A f \in DOMAIN ask : ask[f] \in Values
      BY DEF Asks
    <3> QED
      BY <3>1 DEF Refilled, Rows, Values, Usual
  <2> QED
    BY <2>1, <2>2, <2>3, RowsAreThere, IntendsKeeps
<1>2. CASE AskUpdateAccount(p)
  <2>1. PICK ask \in Asks : Intends(p, MergeAccount(record, ask), DOMAIN ask)
    BY <1>2 DEF AskUpdateAccount
  <2>2. table = "account" /\ record \in Rows
    BY <1>2 DEF AskUpdateAccount
  <2>3. DOMAIN ask \in SUBSET Fields
    BY <2>2, MergedRows
  <2>4. \A f \in Fields \ DOMAIN ask :
          MergeAccount(record, ask)[f] = record[f] \/ Resets(f, MergeAccount(record, ask)[f])
    BY <2>2, MergedRows DEF Resets
  <2> QED
    BY <2>1, <2>2, <2>3, <2>4, RowsAreThere, MergedRows, IntendsKeeps
<1>3. CASE AskUpdateEntity(p) \/ AskUpdatePlan(p) \/ AskUpdateItem(p) \/ AskUpdateRole(p)
  <2>1. PICK ask \in Asks : /\ Intends(p, Overlaid(record, ask), DOMAIN ask)
                            /\ table = "item" => DOMAIN ask \subseteq {"name"}
    BY <1>3 DEF AskUpdateEntity, AskUpdatePlan, AskUpdateItem, AskUpdateRole,
                MergeEntity, MergePlan, MergeItem, MergeRole
  <2>2. table # "meta" /\ record \in Rows
    BY <1>3 DEF AskUpdateEntity, AskUpdatePlan, AskUpdateItem, AskUpdateRole, EditsInv
  <2>3. DOMAIN ask \in SUBSET Fields
    BY <2>2, MergedRows
  <2> QED
    BY <2>1, <2>2, <2>3, RowsAreThere, MergedRows, IntendsKeeps
<1> QED
  BY <1>1, <1>2, <1>3

\* What a write stores: all columns, or those an item is edited in.
LEMMA StoredIs ==
  ASSUME EditsInv, NEW new \in Rows
  PROVE  /\ table = "meta" => Stored(new) = new
         /\ table # "meta" /\ record \notin Rows => Stored(new) = record
         /\ table # "meta" /\ record \in Rows =>
              /\ Stored(new) \in Rows
              /\ Stored(new)["name"] = new["name"]
              /\ Stored(new)["extra"] = IF table = "item" THEN record["extra"] ELSE new["extra"]
<1>1. table = "meta" => Stored(new) = new
  BY DEF Stored, UpsertEntityMeta
<1>2. table # "meta" /\ record \notin Rows => Stored(new) = record
  BY DEF Stored
<1>3. ASSUME record \in Rows, table = "item"
      PROVE  /\ Stored(new) \in Rows
             /\ Stored(new)["name"] = new["name"] /\ Stored(new)["extra"] = record["extra"]
  <2>1. Stored(new) = [record EXCEPT !["name"] = new["name"]]
    BY <1>3 DEF Stored, UpdateItem
  <2> QED
    BY <1>3, <2>1 DEF Rows, Fields
<1>4. ASSUME record \in Rows, table \in Tables \ {"item", "meta"}
      PROVE  /\ Stored(new) \in Rows
             /\ Stored(new)["name"] = new["name"] /\ Stored(new)["extra"] = new["extra"]
  <2> PICK both : both = [record EXCEPT !["name"] = new["name"], !["extra"] = new["extra"]]
    OBVIOUS
  <2>a. table \in {"entity", "plan", "account", "role", "profile"}
    BY <1>4 DEF Tables
  <2>1. /\ UpdateEntity(record, new) = both /\ UpdatePlan(record, new) = both
        /\ UpdateAccount(record, new) = both /\ UpdateWorkspaceRole(record, new) = both
        /\ UpdateTaxProfile(record, new) = both
    BY DEF UpdateEntity, UpdatePlan, UpdateAccount, UpdateWorkspaceRole, UpdateTaxProfile
  <2> PICK item : item = UpdateItem(record, new)
    OBVIOUS
  <2>b. Stored(new) = [entity |-> both, plan |-> both, account |-> both, role |-> both,
                       profile |-> both, item |-> item][table]
    BY <1>4, <2>1 DEF Stored
  <2>c. Stored(new) = both
    <3>1. CASE table = "entity"
      <4>1. Stored(new) = [entity |-> both, plan |-> both, account |-> both, role |-> both,
                           profile |-> both, item |-> item]["entity"]
        BY <2>b, <3>1
      <4> QED
        BY <4>1
    <3>2. CASE table = "plan"
      <4>1. Stored(new) = [entity |-> both, plan |-> both, account |-> both, role |-> both,
                           profile |-> both, item |-> item]["plan"]
        BY <2>b, <3>2
      <4> QED
        BY <4>1
    <3>3. CASE table = "account"
      <4>1. Stored(new) = [entity |-> both, plan |-> both, account |-> both, role |-> both,
                           profile |-> both, item |-> item]["account"]
        BY <2>b, <3>3
      <4> QED
        BY <4>1
    <3>4. CASE table = "role"
      <4>1. Stored(new) = [entity |-> both, plan |-> both, account |-> both, role |-> both,
                           profile |-> both, item |-> item]["role"]
        BY <2>b, <3>4
      <4> QED
        BY <4>1
    <3>5. CASE table = "profile"
      <4>1. Stored(new) = [entity |-> both, plan |-> both, account |-> both, role |-> both,
                           profile |-> both, item |-> item]["profile"]
        BY <2>b, <3>5
      <4> QED
        BY <4>1
    <3> QED
      BY <2>a, <3>1, <3>2, <3>3, <3>4, <3>5
  <2> QED
    BY <1>4, <2>c DEF Rows, Fields
<1> QED
  BY <1>1, <1>2, <1>3, <1>4 DEF EditsInv

LEMMA WriteKeeps ==
  ASSUME EditsInv, NEW p \in Editors, Write(p)
  PROVE  EditsInv'
<1> PICK new, wanted, stale : new = edit[p].new /\ wanted = edit[p].asked /\ stale = edit[p].stale
  OBVIOUS
<1>1. edit[p] # Ready /\ edit[p] \in Intents
  BY DEF Write, EditsInv
<1>2. new \in Rows /\ wanted \subseteq Fields /\ stale \subseteq Fields
  BY <1>1 DEF Intents
<1>3. record' = Stored(new) /\ UNCHANGED <<table, edits>>
  BY DEF Write
<1>4. /\ record # None \/ table = "meta"
      /\ table = "meta" => wanted = Fields
      /\ table = "item" => wanted \subseteq {"name"}
      /\ record \in Rows => \A f \in Fields \ wanted :
           new[f] # meant[f] => f \in stale \cup reverted \/ Resets(f, new[f])
  BY <1>1 DEF EditsInv, IntentInv
<1>5. CASE record' \in Rows
  <2>1. /\ meant' = [f \in Fields |-> IF f \in wanted THEN new[f] ELSE meant[f]]
        /\ reverted' = (reverted \cup stale) \ wanted
        /\ edit' = [Outdates(wanted) EXCEPT ![p] = Ready]
    BY <1>5 DEF Write
  <2>2. table = "meta" \/ record \in Rows
    BY <1>2, <1>3, <1>5, StoredIs
  <2>3. meant' \in Rows
    BY <1>2, <1>4, <2>1, <2>2 DEF EditsInv, Rows
  <2>4. /\ edit'[p] = Ready
        /\ \A q \in Editors \ {p} :
             edit'[q] = IF edit[q] = Ready THEN Ready ELSE [edit[q] EXCEPT !.stale = @ \cup wanted]
    BY <2>1 DEF Outdates
  <2>5. ASSUME NEW q \in Editors, edit'[q] # Ready
        PROVE  /\ q # p /\ edit[q] # Ready /\ edit'[q] \in Intents
               /\ edit'[q].new = edit[q].new /\ edit'[q].asked = edit[q].asked
               /\ edit'[q].stale = edit[q].stale \cup wanted
    <3>1. q # p /\ edit[q] # Ready /\ edit'[q] = [edit[q] EXCEPT !.stale = @ \cup wanted]
      BY <2>4, <2>5
    <3>2. edit[q] \in Intents
      BY <3>1 DEF EditsInv
    <3> QED
      BY <1>2, <3>1, <3>2 DEF Intents
  <2>6. edit' \in [Editors -> Intents \cup {Ready}]
    <3>1. edit' = [q \in Editors |-> edit'[q]]
      BY <2>1 DEF Outdates
    <3> QED
      BY <2>5, <3>1
  <2>7. ASSUME NEW f \in Fields
        PROVE  /\ f \in wanted => meant'[f] = new[f]
               /\ f \notin wanted => meant'[f] = meant[f]
               /\ f \notin wanted /\ f \in stale \cup reverted => f \in reverted'
    BY <2>1
  <2>8. IntentInv'
    <3> SUFFICES ASSUME NEW q \in Editors, edit'[q] # Ready
                 PROVE  /\ record' # None \/ table = "meta"
                        /\ table = "meta" => edit'[q].asked = Fields
                        /\ table = "item" => edit'[q].asked \subseteq {"name"}
                        /\ \A f \in Fields \ edit'[q].asked :
                             edit'[q].new[f] # meant'[f] =>
                               f \in edit'[q].stale \cup reverted' \/ Resets(f, edit'[q].new[f])
      BY <1>3 DEF IntentInv, Resets
    <3>1. /\ table = "meta" => edit'[q].asked = Fields
          /\ table = "item" => edit'[q].asked \subseteq {"name"}
      BY <2>5 DEF EditsInv, IntentInv
    <3>2. record' # None
      BY <1>5, RowsAreThere
    <3>3. ASSUME NEW f \in Fields \ edit'[q].asked, edit'[q].new[f] # meant'[f]
          PROVE  f \in edit'[q].stale \cup reverted' \/ Resets(f, edit'[q].new[f])
      <4>1. record \in Rows
        BY <2>2, <3>1
      <4>2. CASE f \in wanted
        BY <2>5, <4>2
      <4>3. CASE f \notin wanted
        <5>1. edit[q].new[f] # meant[f] /\ f \in Fields \ edit[q].asked
          BY <2>5, <2>7, <3>3, <4>3
        <5>2. f \in edit[q].stale \cup reverted \/ Resets(f, edit[q].new[f])
          BY <2>5, <4>1, <5>1 DEF EditsInv, IntentInv
        <5> QED
          BY <2>5, <2>7, <4>3, <5>2
      <4> QED
        BY <4>2, <4>3
    <3> QED
      BY <3>1, <3>2, <3>3
  <2>9. UnaskedStays'
    <3>1. CASE table = "meta"
      <4>1. record' = new /\ wanted = Fields
        BY <1>2, <1>3, <1>4, <3>1, StoredIs
      <4> QED
        BY <1>3, <2>7, <3>1, <4>1 DEF UnaskedStays
    <3>2. CASE table # "meta"
      <4>1. /\ record'["name"] = new["name"]
            /\ record'["extra"] = IF table = "item" THEN record["extra"] ELSE new["extra"]
        BY <1>2, <1>3, <2>2, <3>2, StoredIs
      <4>2. ASSUME NEW f \in Fields, f = "name" \/ table # "item"
            PROVE  record'[f] # meant'[f] => f \in reverted' \/ Resets(f, record'[f])
        <5>1. record'[f] = new[f]
          BY <4>1, <4>2 DEF Fields
        <5> QED
          BY <1>4, <2>2, <2>7, <3>2, <5>1
      <4>3. table = "item" => record'["extra"] = meant'["extra"]
        <5>1. "extra" \in Fields /\ (table = "item" => "extra" \notin wanted)
          BY <1>4 DEF Fields
        <5>2. table = "item" => record["extra"] = meant["extra"]
          BY <2>2, <3>2 DEF EditsInv, UnaskedStays
        <5> QED
          BY <2>7, <4>1, <5>1, <5>2
      <4> QED
        BY <1>3, <4>2, <4>3 DEF UnaskedStays, Resets, Fields
    <3> QED
      BY <3>1, <3>2
  <2> QED
    BY <1>3, <1>5, <2>3, <2>6, <2>8, <2>9 DEF EditsInv
<1>6. CASE record' \notin Rows
  <2>1. /\ UNCHANGED <<meant, reverted>> /\ edit' = [edit EXCEPT ![p] = Ready]
    BY <1>6 DEF Write
  <2>2. table # "meta" /\ record \notin Rows /\ record' = record
    BY <1>2, <1>3, <1>6, StoredIs
  <2>3. /\ edit' \in [Editors -> Intents \cup {Ready}]
        /\ \A q \in Editors : edit'[q] # Ready => edit'[q] = edit[q]
    BY <2>1 DEF EditsInv
  <2>4. IntentInv' /\ UnaskedStays'
    BY <1>3, <2>1, <2>2, <2>3 DEF EditsInv, IntentInv, UnaskedStays
  <2> QED
    BY <1>3, <2>1, <2>2, <2>3, <2>4 DEF EditsInv
<1> QED
  BY <1>5, <1>6

LEMMA SetsKeeps ==
  ASSUME EditsInv, NEW value \in Values, Sets(value), table # "meta"
  PROVE  EditsInv'
<1>1. /\ record \in Rows /\ meant \in Rows
      /\ record' = [record EXCEPT !["extra"] = value] /\ meant' = [meant EXCEPT !["extra"] = value]
      /\ reverted' = reverted \ {"extra"} /\ UNCHANGED <<table, edits>>
      /\ edit' = Outdates({"extra"})
  BY DEF Sets, EditsInv
<1>2. /\ record' \in Rows /\ meant' \in Rows
      /\ record'["extra"] = meant'["extra"]
      /\ record'["name"] = record["name"] /\ meant'["name"] = meant["name"]
  BY <1>1 DEF Rows, Fields
<1>3. ASSUME NEW q \in Editors, edit'[q] # Ready
      PROVE  /\ edit[q] # Ready /\ edit'[q] \in Intents
             /\ edit'[q].new = edit[q].new /\ edit'[q].asked = edit[q].asked
             /\ edit'[q].stale = edit[q].stale \cup {"extra"}
  <2>1. edit[q] # Ready /\ edit'[q] = [edit[q] EXCEPT !.stale = @ \cup {"extra"}]
    BY <1>1, <1>3 DEF Outdates
  <2>2. edit[q] \in Intents /\ {"extra"} \subseteq Fields
    BY <2>1 DEF EditsInv, Fields
  <2> QED
    BY <2>1, <2>2 DEF Intents
<1>4. edit' \in [Editors -> Intents \cup {Ready}]
  <2>1. edit' = [q \in Editors |-> edit'[q]]
    BY <1>1 DEF Outdates
  <2> QED
    BY <1>3, <2>1
<1>5. UnaskedStays'
  BY <1>1, <1>2 DEF EditsInv, UnaskedStays, Resets, Fields
<1>6. IntentInv'
  <2> SUFFICES ASSUME NEW q \in Editors, edit'[q] # Ready
               PROVE  /\ table = "item" => edit'[q].asked \subseteq {"name"}
                      /\ \A f \in Fields \ edit'[q].asked :
                           edit'[q].new[f] # meant'[f] =>
                             f \in edit'[q].stale \cup reverted' \/ Resets(f, edit'[q].new[f])
    BY <1>1, <1>2, RowsAreThere DEF IntentInv, Resets
  <2>1. \A f \in Fields \ edit[q].asked :
          edit[q].new[f] # meant[f] =>
            f \in edit[q].stale \cup reverted \/ Resets(f, edit[q].new[f])
    BY <1>1, <1>3 DEF EditsInv, IntentInv
  <2>2. table = "item" => edit'[q].asked \subseteq {"name"}
    BY <1>3 DEF EditsInv, IntentInv
  <2> QED
    BY <1>1, <1>2, <1>3, <2>1, <2>2 DEF Fields
<1> QED
  BY <1>1, <1>2, <1>4, <1>5, <1>6 DEF EditsInv

LEMMA InsertsKeeps ==
  ASSUME EditsInv, NEW new \in Rows, Inserts(new), table # "meta"
  PROVE  EditsInv'
<1>1. record = None /\ record' = new /\ meant' = new /\ UNCHANGED <<table, edit, edits, reverted>>
  BY DEF Inserts
<1>2. \A q \in Editors : edit'[q] = Ready
  BY <1>1 DEF EditsInv, IntentInv
<1>3. IntentInv'
  BY <1>2 DEF IntentInv
<1>4. UnaskedStays'
  BY <1>1 DEF UnaskedStays
<1> QED
  BY <1>1, <1>3, <1>4 DEF EditsInv

LEMMA EditsStep == EditsInv /\ [EditsNext]_editVars => EditsInv'
<1> SUFFICES ASSUME EditsInv, [EditsNext]_editVars PROVE EditsInv'
  OBVIOUS
<1>1. CASE CreatePlan \/ CreateItem \/ CreateAccount \/ CreateRole
  <2>1. table # "meta" /\ \E new \in Rows : Inserts(new)
    BY <1>1 DEF CreatePlan, CreateItem, CreateAccount, CreateRole
  <2> QED
    BY <2>1, InsertsKeeps
<1>2. CASE GetOrCreateProfile
  <2>1. table # "meta" /\ Inserts([f \in Fields |-> Usual])
    BY <1>2 DEF GetOrCreateProfile
  <2>2. [f \in Fields |-> Usual] \in Rows
    BY DEF Rows, Values
  <2> QED
    BY <2>1, <2>2, InsertsKeeps
<1>3. CASE DeletePlan \/ SoftDeleteItem \/ ReactivateItem
  <2>1. table # "meta" /\ \E value \in Values : Sets(value)
    BY <1>3 DEF DeletePlan, SoftDeleteItem, ReactivateItem, Values
  <2> QED
    BY <2>1, SetsKeeps
<1>4. CASE DeleteRole
  <2>1. /\ table = "role" /\ record' = Gone /\ meant' = Gone
        /\ UNCHANGED <<table, edit, edits, reverted>>
    BY <1>4 DEF DeleteRole
  <2>2. record' \notin Rows /\ record' # None
    BY <2>1, RowsAreThere
  <2>3. IntentInv' /\ UnaskedStays'
    BY <2>1, <2>2 DEF EditsInv, IntentInv, UnaskedStays
  <2> QED
    BY <2>1, <2>2, <2>3 DEF EditsInv
<1>5. ASSUME NEW p \in Editors,
             \/ AskUpdateEntity(p) \/ AskUpdateEntityMeta(p) \/ AskUpdatePlan(p)
             \/ AskUpdateItem(p) \/ AskUpdateAccount(p) \/ AskUpdateRole(p) \/ AskUpdateProfile(p)
      PROVE  EditsInv'
  BY <1>5, AskKeeps
<1>6. ASSUME NEW p \in Editors, Write(p)
      PROVE  EditsInv'
  BY <1>6, WriteKeeps
<1>7. CASE UNCHANGED editVars
  BY <1>7 DEF editVars, EditsInv, IntentInv, UnaskedStays, Resets
<1> QED
  BY <1>1, <1>2, <1>3, <1>4, <1>5, <1>6, <1>7 DEF EditsNext

\* A column nobody asked to change is what it was last asked to be, unless an
\* edit that had read it before wrote it back, and the switch of an item is
\* never written back (internal/db UpdateEntity, UpdatePlan, UpdateItem and
\* their like write all columns of the row read before).
THEOREM UnaskedStay == EditsSpec => []UnaskedStays
<1>1. EditsInit => EditsInv
  <2> SUFFICES ASSUME EditsInit PROVE EditsInv
    OBVIOUS
  <2>1. /\ table \in Tables /\ \A p \in Editors : edit[p] = Ready
        /\ edit \in [Editors -> Intents \cup {Ready}]
    BY DEF EditsInit, Tables
  <2>2. /\ table = "entity" => record \in Rows /\ meant \in Rows
        /\ record \in Rows \cup {None} /\ meant = record
    BY DEF EditsInit, Rows, Values
  <2>3. record \in Rows => meant \in Rows
    BY <2>2
  <2> QED
    BY <2>1, <2>2, <2>3 DEF EditsInv, IntentInv, UnaskedStays
<1>2. EditsInv => UnaskedStays
  BY DEF EditsInv
<1> QED
  BY <1>1, <1>2, EditsStep, PTL DEF EditsSpec

-----------------------------------------------------------------------------
(* The first of a finite set in an order, and pages of it.                 *)

\* R puts the elements of S one after the other.
Orders(R, S) ==
  /\ \A i, j \in S : i # j => <<i, j>> \in R \/ <<j, i>> \in R
  /\ \A i, j \in S : <<i, j>> \in R => <<j, i>> \notin R
  /\ \A i, j, k \in S : <<i, j>> \in R /\ <<j, k>> \in R => <<i, k>> \in R

\* The first n of S.
IsFirst(F, n, R, S) ==
  /\ F \subseteq S
  /\ \A i \in F, j \in S \ F : <<i, j>> \in R
  /\ Cardinality(F) = IF n < Cardinality(S) THEN n ELSE Cardinality(S)

\* s is in that order, and a page of it has what is at places from n + 1 to e.
Ranked(s, R) == \A a, b \in 1..Len(s) : a < b => <<s[b], s[a]>> \notin R
PageEnd(s, n, l) == IF n + l <= Len(s) THEN n + l ELSE Len(s)
IsPage(page, s, n, e) == \A x : x \in page <=> \E a \in (n + 1)..e : x = s[a]

\* Some element comes before all others, and some after all others.
LEMMA LeastExists ==
  ASSUME NEW S, IsFiniteSet(S), NEW R, Orders(R, S), S # {}
  PROVE  \E m \in S : \A j \in S \ {m} : <<m, j>> \in R
<1> DEFINE T == {s \in SUBSET S : s = {} \/ \E m \in s : \A j \in s \ {m} : <<m, j>> \in R}
<1>1. {} \in T
  OBVIOUS
<1>2. ASSUME NEW s \in SUBSET S, NEW x \in S \ s, s \in T
      PROVE  s \cup {x} \in T
  <2>1. CASE s = {}
    BY <2>1
  <2>2. ASSUME NEW m \in s, \A j \in s \ {m} : <<m, j>> \in R
        PROVE  s \cup {x} \in T
    <3>1. CASE <<m, x>> \in R
      BY <2>2, <3>1
    <3>2. CASE <<x, m>> \in R
      <4>1. \A j \in s : <<x, j>> \in R
        BY <1>2, <2>2, <3>2 DEF Orders
      <4> QED
        BY <4>1
    <3> QED
      BY <1>2, <3>1, <3>2 DEF Orders
  <2> QED
    BY <1>2, <2>1, <2>2
<1> HIDE DEF T
<1>3. \A s \in SUBSET S : s \in T
  BY <1>1, <1>2, OneByOne
<1> QED
  BY <1>3 DEF T

LEMMA GreatestExists ==
  ASSUME NEW S, IsFiniteSet(S), NEW R, Orders(R, S), S # {}
  PROVE  \E m \in S : \A j \in S \ {m} : <<j, m>> \in R
<1> DEFINE Q == {p \in S \X S : <<p[2], p[1]>> \in R}
<1>1. \A i, j \in S : <<i, j>> \in Q <=> <<j, i>> \in R
  OBVIOUS
<1> HIDE DEF Q
<1>2. Orders(Q, S)
  BY <1>1 DEF Orders
<1>3. PICK m \in S : \A j \in S \ {m} : <<m, j>> \in Q
  BY <1>2, LeastExists
<1> QED
  BY <1>1, <1>3

LEMMA OrdersLess ==
  ASSUME NEW R, NEW S, Orders(R, S), NEW s \in SUBSET S
  PROVE  Orders(R, s)
BY DEF Orders

\* One more and one less.
LEMMA Sizes ==
  ASSUME NEW S, IsFiniteSet(S)
  PROVE  /\ Cardinality(S) \in Nat
         /\ \A x \in S : IsFiniteSet(S \ {x}) /\ Cardinality(S \ {x}) = Cardinality(S) - 1
         /\ \A x : x \notin S => IsFiniteSet(S \cup {x}) /\ Cardinality(S \cup {x}) = Cardinality(S) + 1
         /\ \A s \in SUBSET S : /\ IsFiniteSet(s) /\ Cardinality(s) \in Nat
                                /\ Cardinality(s) <= Cardinality(S)
                                /\ Cardinality(s) = Cardinality(S) => s = S
<1>1. \A x \in S : IsFiniteSet(S \ {x}) /\ Cardinality(S \ {x}) = Cardinality(S) - 1
  BY FS_RemoveElement
<1>2. \A x : x \notin S => IsFiniteSet(S \cup {x}) /\ Cardinality(S \cup {x}) = Cardinality(S) + 1
  BY FS_AddElement
<1>3. ASSUME NEW s \in SUBSET S
      PROVE  /\ IsFiniteSet(s) /\ Cardinality(s) \in Nat /\ Cardinality(s) <= Cardinality(S)
             /\ Cardinality(s) = Cardinality(S) => s = S
  BY FS_Subset, FS_CardinalityType
<1> QED
  BY <1>1, <1>2, <1>3, FS_CardinalityType

\* The first once x has left: at most one row gets among them.
FirstAfter(F, n, R, S, x) ==
  \E G, y : /\ IsFirst(G, n, R, S \ {x})
            /\ G \subseteq F \cup {y} /\ F \ {x} \subseteq G

LEMMA FirstWithout ==
  ASSUME NEW S, IsFiniteSet(S), NEW R, Orders(R, S), NEW n \in Nat, NEW F, IsFirst(F, n, R, S),
         NEW x \in S
  PROVE  FirstAfter(F, n, R, S, x)
<1> SUFFICES \E G, y : /\ IsFirst(G, n, R, S \ {x})
                       /\ G \subseteq F \cup {y} /\ F \ {x} \subseteq G
  BY DEF FirstAfter
<1> USE DEF IsFirst
<1>1. /\ Cardinality(S) \in Nat /\ Cardinality(S \ {x}) = Cardinality(S) - 1
      /\ IsFiniteSet(F) /\ Cardinality(F) \in Nat /\ IsFiniteSet(S \ F)
      /\ Cardinality(F) = Cardinality(S) => F = S
  BY Sizes, FS_Difference
<1>2. CASE x \notin F
  <2>1. F # S
    BY <1>2
  <2>2. Cardinality(F) = n /\ n <= Cardinality(S) - 1
    BY <1>1, <2>1
  <2>3. IsFirst(F, n, R, S \ {x})
    BY <1>1, <1>2, <2>2
  <2> QED
    BY <1>2, <2>3
<1>3. CASE x \in F /\ F = S
  <2>1. n >= Cardinality(S)
    BY <1>1, <1>3
  <2>2. IsFirst(S \ {x}, n, R, S \ {x})
    BY <1>1, <2>1
  <2> QED
    BY <1>3, <2>2
<1>4. CASE x \in F /\ F # S
  <2>1. Cardinality(F) = n /\ n < Cardinality(S)
    BY <1>1, <1>4
  <2>2. PICK m \in S \ F : \A j \in (S \ F) \ {m} : <<m, j>> \in R
    <3>1. Orders(R, S \ F) /\ S \ F # {}
      BY <1>4, OrdersLess
    <3> QED
      BY <1>1, <3>1, LeastExists
  <2> DEFINE G == (F \ {x}) \cup {m}
  <2>3. Cardinality(G) = n
    <3>1. IsFiniteSet(F \ {x}) /\ Cardinality(F \ {x}) = n - 1
      BY <1>1, <1>4, <2>1, Sizes
    <3>2. m \notin F \ {x}
      BY <2>2
    <3>3. Cardinality((F \ {x}) \cup {m}) = Cardinality(F \ {x}) + 1
      BY <3>1, <3>2, FS_AddElement
    <3> QED
      BY <3>1, <3>3
  <2>4. IsFirst(G, n, R, S \ {x})
    <3>1. G \subseteq S \ {x}
      BY <1>4, <2>2
    <3>2. \A i \in G, j \in (S \ {x}) \ G : <<i, j>> \in R
      BY <2>2
    <3>3. n <= Cardinality(S \ {x})
      BY <1>1, <2>1
    <3> HIDE DEF G
    <3> QED
      BY <1>1, <2>1, <2>3, <3>1, <3>2, <3>3
  <2>5. G \subseteq F \cup {m} /\ F \ {x} \subseteq G
    OBVIOUS
  <2> QED
    BY <2>4, <2>5
<1> QED
  BY <1>2, <1>3, <1>4

\* When a row comes, at most one row gets behind the first.
LEMMA FirstWith ==
  ASSUME NEW S, IsFiniteSet(S), NEW R, NEW x, x \notin S, Orders(R, S \cup {x}),
         NEW n \in Nat, NEW F, IsFirst(F, n, R, S)
  PROVE  \E G, y : /\ IsFirst(G, n, R, S \cup {x})
                   /\ G \subseteq F \cup {x} /\ (S \cup {x}) \ G \subseteq (S \ F) \cup {y}
<1> DEFINE Exists ==
      \E G, y : /\ IsFirst(G, n, R, S \cup {x})
                /\ G \subseteq F \cup {x} /\ (S \cup {x}) \ G \subseteq (S \ F) \cup {y}
<1> SUFFICES Exists
  OBVIOUS
<1> USE DEF IsFirst
<1>1. /\ Cardinality(S) \in Nat /\ Cardinality(S \cup {x}) = Cardinality(S) + 1
      /\ IsFiniteSet(F) /\ Cardinality(F) \in Nat
      /\ Cardinality(F) = Cardinality(S) => F = S
  BY Sizes
<1>2. CASE n > Cardinality(S)
  <2>1. F = S
    BY <1>1, <1>2
  <2>2. IsFirst(S \cup {x}, n, R, S \cup {x})
    BY <1>1, <1>2
  <2> QED
    BY <2>1, <2>2
<1>3. CASE n <= Cardinality(S) /\ \A i \in F : <<i, x>> \in R
  <2>1. Cardinality(F) = n
    BY <1>1, <1>3
  <2>2. IsFirst(F, n, R, S \cup {x})
    BY <1>1, <1>3, <2>1
  <2>3. (S \cup {x}) \ F \subseteq (S \ F) \cup {x}
    OBVIOUS
  <2> QED
    BY <2>2, <2>3
<1>4. ASSUME n <= Cardinality(S), NEW i \in F, <<i, x>> \notin R
      PROVE  Exists
  <2>1. Cardinality(F) = n
    BY <1>1, <1>4
  <2>2. PICK m \in F : \A j \in F \ {m} : <<j, m>> \in R
    <3>1. Orders(R, F)
      BY OrdersLess
    <3> QED
      BY <1>1, <3>1, GreatestExists
  <2> DEFINE G == (F \ {m}) \cup {x}
  <2>3. Cardinality(G) = n
    <3>1. IsFiniteSet(F \ {m}) /\ Cardinality(F \ {m}) = n - 1
      BY <1>1, <2>1, <2>2, Sizes
    <3>2. x \notin F \ {m}
      OBVIOUS
    <3>3. Cardinality((F \ {m}) \cup {x}) = Cardinality(F \ {m}) + 1
      BY <3>1, <3>2, FS_AddElement
    <3> QED
      BY <2>1, <3>1, <3>3, <1>1
  <2>4. <<x, i>> \in R
    BY <1>4 DEF Orders
  <2>5. <<x, m>> \in R
    BY <2>2, <2>4 DEF Orders
  <2>6. \A j \in S \ F : <<x, j>> \in R
    BY <2>4 DEF Orders
  <2>7. IsFirst(G, n, R, S \cup {x})
    <3>1. G \subseteq S \cup {x}
      OBVIOUS
    <3>2. \A a \in G, j \in (S \cup {x}) \ G : <<a, j>> \in R
      BY <2>2, <2>5, <2>6
    <3> HIDE DEF G
    <3> QED
      BY <1>1, <1>4, <2>3, <3>1, <3>2
  <2>8. G \subseteq F \cup {x} /\ (S \cup {x}) \ G \subseteq (S \ F) \cup {m}
    OBVIOUS
  <2> QED
    BY <2>7, <2>8
<1>5. CASE n <= Cardinality(S) /\ ~(\A i \in F : <<i, x>> \in R)
  BY <1>4, <1>5
<1> HIDE DEF IsFirst, Exists
<1>6. CASE n <= Cardinality(S)
  BY <1>3, <1>5, <1>6
<1>7. n \in Nat /\ Cardinality(S) \in Nat
  BY <1>1
<1> QED
  BY <1>2, <1>6, <1>7

\* There is only one choice of the first.
LEMMA FirstIsUnique ==
  ASSUME NEW S, IsFiniteSet(S), NEW R, Orders(R, S), NEW n \in Nat, NEW F, IsFirst(F, n, R, S),
         NEW G, IsFirst(G, n, R, S)
  PROVE  F = G
<1> USE DEF IsFirst
<1>1. IsFiniteSet(F) /\ IsFiniteSet(G) /\ Cardinality(F) = Cardinality(G)
  BY Sizes
<1>2. F \subseteq G \/ G \subseteq F
  BY DEF Orders
<1> QED
  BY <1>1, <1>2, Sizes

\* The first k places of a sequence in that order are the first k of the set.
LEMMA Heads ==
  ASSUME NEW S, IsFiniteSet(S), NEW R, Orders(R, S), NEW s \in SetToSeqs(S),
         Ranked(s, R), NEW k \in 0..Cardinality(S)
  PROVE  /\ Len(s) = Cardinality(S) /\ s \in Seq(S)
         /\ IsFirst({s[a] : a \in 1..k}, k, R, S)
         /\ \A a, b \in 1..Len(s) : s[a] = s[b] => a = b
<1> DEFINE n == Cardinality(S)
           H(m) == {s[a] : a \in 1..m}
<1>1. n \in Nat
  BY FS_CardinalityType
<1>2. s \in [1..n -> S] /\ \A a, b \in 1..n : s[a] = s[b] => a = b
  BY DEF SetToSeqs
<1>3. Len(s) = n /\ s \in Seq(S)
  BY <1>1, <1>2
<1>4. ASSUME NEW m \in 0..n
      PROVE  H(m) \subseteq S /\ Cardinality(H(m)) = m
  <2>1. H(m) \subseteq S
    BY <1>1, <1>2
  <2> DEFINE f == [a \in 1..m |-> s[a]]
  <2>2. f \in Bijection(1..m, H(m))
    BY <1>1, <1>2 DEF Bijection, Injection, Surjection, IsInjective
  <2>3. Cardinality(H(m)) = m
    <3> HIDE DEF f, H
    <3>1. ExistsBijection(1..m, H(m)) /\ m \in Nat
      BY <1>1, <2>2 DEF ExistsBijection
    <3> QED
      BY <3>1, FS_CountingElements
  <2> QED
    BY <2>1, <2>3
<1>5. H(n) = S
  <2>1. H(n) \in SUBSET S /\ Cardinality(H(n)) = Cardinality(S)
    BY <1>1, <1>4
  <2> HIDE DEF H
  <2> QED
    BY <2>1, Sizes
<1>6. \A i \in H(k), j \in S \ H(k) : <<i, j>> \in R
  <2> SUFFICES ASSUME NEW i \in H(k), NEW j \in S \ H(k) PROVE <<i, j>> \in R
    OBVIOUS
  <2>1. PICK a \in 1..k : i = s[a]
    OBVIOUS
  <2>2. PICK b \in 1..n : j = s[b]
    BY <1>5
  <2>3. ~(b <= k)
    BY <1>1, <2>2
  <2>4. a \in 1..n /\ a < b
    BY <1>1, <2>1, <2>3
  <2>5. <<j, i>> \notin R /\ i \in S /\ j \in S /\ i # j
    BY <1>2, <1>3, <2>1, <2>2, <2>4 DEF Ranked
  <2> QED
    BY <2>5 DEF Orders
<1>7. IsFirst(H(k), k, R, S)
  <2> HIDE DEF H
  <2>1. H(k) \subseteq S /\ Cardinality(H(k)) = k /\ k \in Nat /\ k <= n
    BY <1>1, <1>4
  <2> QED
    BY <1>1, <1>6, <2>1 DEF IsFirst
<1> QED
  BY <1>2, <1>3, <1>7

\* A page of rows in their order.
LEMMA PageIs ==
  ASSUME NEW S, IsFiniteSet(S), NEW R, Orders(R, S), NEW s \in SetToSeqs(S),
         Ranked(s, R),
         NEW n \in Nat, NEW l \in Nat \ {0}, NEW F, IsFirst(F, n, R, S),
         NEW page, IsPage(page, s, n, PageEnd(s, n, l))
  PROVE  /\ page \subseteq S /\ IsFirst(F \cup page, n + l, R, S)
         /\ F \cap page = {}
         /\ page = {} => F = S
<1> DEFINE c == Cardinality(S)
           e == PageEnd(s, n, l)
           H(m) == {s[a] : a \in 1..m}
           Goal == /\ page \subseteq S /\ IsFirst(F \cup page, n + l, R, S)
                   /\ F \cap page = {}
                   /\ page = {} => F = S
<1> SUFFICES Goal
  OBVIOUS
<1>1. c \in Nat
  BY FS_CardinalityType
<1>2. /\ Len(s) = c /\ s \in Seq(S)
      /\ \A k \in 0..c : IsFirst(H(k), k, R, S)
      /\ \A a, b \in 1..c : s[a] = s[b] => a = b
  <2>1. 0 \in 0..c
    BY <1>1
  <2>2. /\ Len(s) = c /\ s \in Seq(S)
        /\ \A a, b \in 1..Len(s) : s[a] = s[b] => a = b
    BY <2>1, Heads
  <2>3. ASSUME NEW k \in 0..c PROVE IsFirst(H(k), k, R, S)
    <3>1. IsFirst({s[a] : a \in 1..k}, k, R, S)
      BY Heads
    <3> QED
      BY <3>1
  <2> QED
    BY <2>2, <2>3
<1>3. e = IF n + l <= c THEN n + l ELSE c
  BY <1>2 DEF PageEnd
<1> HIDE DEF e
<1>4. page = {s[a] : a \in (n + 1)..e}
  BY DEF IsPage, e
<1> HIDE DEF H
<1>5. CASE n <= c
  <2>1. F = H(n)
    <3>1. n \in 0..c
      BY <1>1, <1>5
    <3>2. IsFirst(H(n), n, R, S)
      BY <1>2, <3>1
    <3> QED
      BY <3>2, FirstIsUnique
  <2>2. e \in n..c /\ e <= n + l /\ (e = n + l \/ e = c)
    BY <1>1, <1>3, <1>5
  <2>3. F \cup page = H(e)
    <3>1. \A a : a \in 1..e <=> a \in 1..n \/ a \in (n + 1)..e
      BY <1>1, <2>2
    <3> QED
      BY <1>4, <2>1, <3>1 DEF H
  <2>4. IsFirst(H(e), e, R, S)
    BY <1>1, <1>2, <2>2
  <2>5. page \subseteq S
    BY <2>3, <2>4 DEF IsFirst
  <2>6. IsFirst(F \cup page, n + l, R, S)
    <3>1. IsFirst(H(e), n + l, R, S)
      BY <1>1, <2>2, <2>4 DEF IsFirst
    <3> QED
      BY <2>3, <3>1
  <2>7. F \cap page = {}
    <3> SUFFICES ASSUME NEW i \in F, i \in page PROVE FALSE
      OBVIOUS
    <3>1. PICK a \in 1..n : i = s[a]
      BY <2>1 DEF H
    <3>2. PICK b \in (n + 1)..e : i = s[b]
      BY <1>4
    <3>3. a \in 1..c /\ b \in 1..c /\ a # b
      BY <1>1, <2>2
    <3> QED
      BY <1>2, <3>1, <3>2, <3>3
  <2>8. ASSUME page = {} PROVE F = S
    <3>1. ~(n + 1 <= e)
      <4>1. n + 1 <= e => n + 1 \in (n + 1)..e
        BY <1>1, <2>2
      <4> QED
        BY <1>4, <2>8, <4>1
    <3>2. e = c /\ n = c
      BY <1>1, <2>2, <3>1
    <3>3. Cardinality(F) = Cardinality(S) /\ F \in SUBSET S
      BY <1>1, <3>2 DEF IsFirst
    <3> QED
      BY <3>3, Sizes
  <2> QED
    BY <2>5, <2>6, <2>7, <2>8
<1>6. CASE n > c
  <2>1. page = {}
    <3>1. \A a : a \notin (n + 1)..e
      BY <1>1, <1>3, <1>6
    <3> QED
      BY <1>4, <3>1
  <2>2. F = S
    BY <1>1, <1>6, Sizes DEF IsFirst
  <2>3. IsFirst(F, n + l, R, S)
    BY <1>1, <1>6, <2>2 DEF IsFirst
  <2>4. F \cup page = F
    BY <2>1
  <2> QED
    BY <2>1, <2>2, <2>3, <2>4
<1> HIDE DEF Goal
<1> QED
  BY <1>1, <1>5, <1>6

-----------------------------------------------------------------------------
(* The lists: what their statements have in common.                        *)

Named == DOMAIN Answers(0, 0)
RowChoices == {"all", "fitting"}
OrderChoices == {"newest", "oldest", "dated", "alike", "named"}

\* What a page of a list has in common with the first, and where it begins.
Follows(answer, first, name, o) ==
  /\ answer.rows = first.rows /\ first.rows \in RowChoices
  /\ answer.order = first.order /\ first.order \in OrderChoices
  /\ answer.limit = first.limit /\ first.limit \in Nat
  /\ name # "calculations" /\ first.limit # 0 => answer.from = o
  /\ name = "calculations" => first.limit # 0 /\ answer.from = (o \div first.limit) * first.limit

\* So it is for a statement with LIMIT and OFFSET and for one without.
LEMMA Selected ==
  ASSUME NEW r \in RowChoices, NEW d \in OrderChoices, NEW m \in Nat, NEW o \in Nat, NEW name,
         name # "calculations"
  PROVE  /\ Follows(Select(r, d, m, o), Select(r, d, m, 0), name, o)
         /\ Follows(Dropping(Select(r, d, m, o)), Dropping(Select(r, d, m, 0)), name, o)
         /\ Follows(Whole(r, d), Whole(r, d), name, o)
         /\ Follows(Dropping(Whole(r, d)), Dropping(Whole(r, d)), name, o)
<1> DEFINE Rec == [rows : RowChoices, order : OrderChoices, limit : Nat, from : Nat, drops : BOOLEAN]
           Alike(p, q) == /\ p.rows = q.rows /\ p.order = q.order
                          /\ p.limit = q.limit /\ p.from = q.from
<1>1. \A p \in Rec : Alike(Dropping(p), p)
  BY DEF Dropping
<1>2. ASSUME NEW x \in Nat, NEW k \in Nat
      PROVE  /\ Select(r, d, k, x) \in Rec
             /\ Select(r, d, k, x).rows = r /\ Select(r, d, k, x).order = d
             /\ Select(r, d, k, x).limit = k /\ Select(r, d, k, x).from = x
  BY DEF Select
<1>3. \A p, q : /\ {p, q} \subseteq Rec
               /\ p.rows = q.rows /\ p.order = q.order /\ p.limit = q.limit
               /\ (q.limit # 0 => p.from = o)
               => Follows(p, q, name, o)
  BY DEF Follows
<1>4. \A p, q, p1, q1 : Alike(p1, p) /\ Alike(q1, q) /\ Follows(p, q, name, o) => Follows(p1, q1, name, o)
  BY DEF Follows
<1>5. Whole(r, d) = Select(r, d, 0, 0)
  BY DEF Whole
<1> HIDE DEF Rec, Alike
<1>6. Follows(Select(r, d, m, o), Select(r, d, m, 0), name, o) /\ Follows(Whole(r, d), Whole(r, d), name, o)
  BY <1>2, <1>3, <1>5
<1>7. Alike(Dropping(Select(r, d, m, o)), Select(r, d, m, o)) /\ Alike(Dropping(Select(r, d, m, 0)), Select(r, d, m, 0))
  BY <1>1, <1>2
<1>8. Alike(Dropping(Whole(r, d)), Whole(r, d))
  BY <1>1, <1>2, <1>5
<1> QED
  BY <1>4, <1>6, <1>7, <1>8

\* Whatever limit is asked for, the one that counts is positive.
LEMMA LimitsAre ==
  ASSUME NEW l \in Limits
  PROVE  /\ parsePagination(l) \in Nat \ {0}
         /\ OrElse(l, Twenty) \in Nat \ {0} /\ OrElse(l, Fifty) \in Nat \ {0}
         /\ Capped(OrElse(l, Twenty)) \in Nat \ {0}
BY ListsAssumption DEF Limits, parsePagination, OrElse, Capped

\* Statement by statement: each list selects and orders the same rows on each
\* page, and all but the calculations begin at the offset.
LEMMA AnswersFollow ==
  ASSUME NEW l \in Limits, NEW o \in Nat, NEW name \in Named
  PROVE  Follows(Answers(l, o)[name], Answers(l, 0)[name], name, o)
<1> DEFINE Good(n) == Follows(Answers(l, o)[n], Answers(l, 0)[n], n, o)
<1> DEFINE a == parsePagination(l)
           b == OrElse(l, Twenty)
           c == OrElse(l, Fifty)
           d == Capped(OrElse(l, Twenty))
<1>0. /\ a \in Nat \ {0} /\ b \in Nat \ {0} /\ c \in Nat \ {0} /\ d \in Nat \ {0}
      /\ "all" \in RowChoices /\ "fitting" \in RowChoices
      /\ \A x \in {"newest", "oldest", "dated", "alike", "named"} : x \in OrderChoices
  BY LimitsAre DEF RowChoices, OrderChoices
<1> HIDE DEF a, b, c, d
<1>1. /\ Good("transactions")
      /\ Good("ledger")
      /\ Good("items")
      /\ Good("items_by_type")
      /\ Good("items_all")
  <2>1. \A x \in Nat :
          /\ Answers(l, x)["transactions"] = Select("all", "dated", a, x)
          /\ Answers(l, x)["ledger"] = Select("all", "newest", a, x)
          /\ Answers(l, x)["items"] = Select("fitting", "named", a, x)
          /\ Answers(l, x)["items_by_type"] = Select("fitting", "named", a, x)
          /\ Answers(l, x)["items_all"] = Select("all", "named", a, x)
    BY DEF Answers, ListTransactions, ListTransactionsByWorkspace, GetGeneralLedger,
       ListLedgerEntriesByAccount, ListItems, ListItemsByWorkspace, ListItemsByType,
       ListAllItemsByWorkspace, a
  <2> QED
    BY <1>0, <2>1, Selected
<1>2. /\ Good("invoices")
      /\ Good("payments")
      /\ Good("tax_reports")
  <2>1. \A x \in Nat :
          /\ Answers(l, x)["invoices"] = Select("all", "newest", b, x)
          /\ Answers(l, x)["payments"] = Select("all", "newest", b, x)
          /\ Answers(l, x)["tax_reports"] = Select("all", "newest", b, x)
    BY DEF Answers, ListInvoices, ListInvoicesByWorkspace, ListPayments,
       ListPaymentsByWorkspace, ListReportJobs, ListTaxReportJobs, b
  <2> QED
    BY <1>0, <2>1, Selected
<1>3. /\ Good("all_invoices")
      /\ Good("all_subscriptions")
  <2>1. \A x \in Nat :
          /\ Answers(l, x)["all_invoices"] = Select("all", "newest", c, x)
          /\ Answers(l, x)["all_subscriptions"] = Select("all", "newest", c, x)
    BY DEF Answers, ListAllInvoices, ListAllInvoicesQuery, ListAllSubscriptions,
       ListAllSubscriptionsQuery, c
  <2> QED
    BY <1>0, <2>1, Selected
<1>4. /\ Good("review")
      /\ Good("all_claims")
      /\ Good("matches")
      /\ Good("documents")
  <2>1. \A x \in Nat :
          /\ Answers(l, x)["review"] = Select("fitting", "oldest", d, x)
          /\ Answers(l, x)["all_claims"] = Select("all", "newest", d, x)
          /\ Answers(l, x)["matches"] = Select("fitting", "alike", d, x)
          /\ Answers(l, x)["documents"] = Select("all", "newest", d, x)
    BY DEF Answers, ListClaimsForReview, ListClaimsByStatus, ListAllClaims,
       ListAllClaimsQuery, SearchFuzzy, SearchEntitiesFuzzy, ListDocuments,
       ListDocumentsByWorkspace, d
  <2> QED
    BY <1>0, <2>1, Selected
<1>5. Good("entities")
  <2>1. \A x \in Nat :
          Answers(l, x)["entities"] = Dropping(Select("fitting", "named", d, x))
    BY DEF Answers, SearchEntitiesForUser, SearchEntitiesByName, d
  <2> QED
    BY <1>0, <2>1, Selected
<1>6. /\ Good("accounts")
      /\ Good("accounts_by_type")
      /\ Good("accounts_all")
  <2>1. \A x \in Nat :
          /\ Answers(l, x)["accounts"] = Whole("fitting", "named")
          /\ Answers(l, x)["accounts_by_type"] = Whole("fitting", "named")
          /\ Answers(l, x)["accounts_all"] = Whole("all", "named")
    BY DEF Answers, ListAccounts, ListAccountsByWorkspace, ListAccountsByTypeQuery,
       ListAllAccountsByWorkspace
  <2> QED
    BY <1>0, <2>1, Selected
<1>7. /\ Good("subscriptions")
      /\ Good("all_plans")
      /\ Good("my_entities")
      /\ Good("roles")
      /\ Good("my_claims")
      /\ Good("tax_documents")
  <2>1. \A x \in Nat :
          /\ Answers(l, x)["subscriptions"] = Whole("all", "newest")
          /\ Answers(l, x)["all_plans"] = Whole("all", "named")
          /\ Answers(l, x)["my_entities"] = Whole("all", "newest")
          /\ Answers(l, x)["roles"] = Whole("all", "named")
          /\ Answers(l, x)["my_claims"] = Whole("all", "newest")
          /\ Answers(l, x)["tax_documents"] = Whole("all", "newest")
    BY DEF Answers, ListSubscriptionsByWorkspace, ListAllPlans, ListEntitiesByUserID,
       ListWorkspaceRoles, GetClaimsByClaimant, ListTaxDocumentRefs
  <2> QED
    BY <1>0, <2>1, Selected
<1>8. /\ Good("plans")
      /\ Good("aliases")
      /\ Good("invites")
  <2>1. \A x \in Nat :
          /\ Answers(l, x)["plans"] = Whole("fitting", "named")
          /\ Answers(l, x)["aliases"] = Whole("fitting", "named")
          /\ Answers(l, x)["invites"] = Whole("fitting", "newest")
    BY DEF Answers, ListPlans, ListCounterpartyAliasesFromRelations,
       ListPendingInvitesByWorkspace
  <2> QED
    BY <1>0, <2>1, Selected
<1>9. /\ Good("my_workspaces")
      /\ Good("members")
      /\ Good("counterparties")
  <2>1. \A x \in Nat :
          /\ Answers(l, x)["my_workspaces"] = Dropping(Whole("fitting", "newest"))
          /\ Answers(l, x)["members"] = Dropping(Whole("fitting", "newest"))
          /\ Answers(l, x)["counterparties"] = Dropping(Whole("fitting", "newest"))
    BY DEF Answers, ListMyWorkspaces, ListWorkspacesBySubject, ListMembers,
       ListRelationsByObject, ListCounterparties
  <2> QED
    BY <1>0, <2>1, Selected
<1>10. Good("calculations")
  <2> DEFINE from(x) == PageOffset(x \div b + 1, b)
  <2>1. \A x \in Nat : Answers(l, x)["calculations"] = Select("fitting", "newest", b, from(x))
    <3>1. ASSUME NEW x \in Nat
          PROVE  ListCalculations(l, x) = Select("fitting", "newest", b, from(x))
      BY DEF ListCalculations, ListTaxCalculations, b
    <3>2. \A x \in Nat : Answers(l, x)["calculations"] = ListCalculations(l, x)
      BY DEF Answers
    <3> HIDE DEF from
    <3> QED
      BY <3>1, <3>2
  <2>2. \A x \in Nat : from(x) = (x \div b) * b
    <3>1. \A x \in Nat : x \div b \in Nat
      BY <1>0
    <3>2. \A q \in Nat : q + 1 - 1 = q
      OBVIOUS
    <3> QED
      BY <3>1, <3>2 DEF PageOffset
  <2> HIDE DEF from
  <2>3. Answers(l, o)["calculations"] = Select("fitting", "newest", b, from(o))
    BY <2>1
  <2>4. Answers(l, 0)["calculations"] = Select("fitting", "newest", b, from(0))
    BY <2>1
  <2> HIDE DEF Answers
  <2>5. from(o) = (o \div b) * b /\ b # 0
    BY <1>0, <2>2
  <2> QED
    BY <1>0, <2>3, <2>4, <2>5 DEF Follows, Select
<1> HIDE DEF Good
<1>11. name \in {"transactions", "ledger", "items", "items_by_type", "items_all",
                  "invoices", "payments", "all_invoices", "all_subscriptions",
                  "review", "all_claims", "entities", "matches", "documents",
                  "tax_reports", "accounts", "accounts_by_type", "accounts_all",
                  "subscriptions", "plans", "all_plans", "my_entities",
                  "my_workspaces", "members", "counterparties", "aliases", "roles",
                  "invites", "my_claims", "tax_documents", "calculations"}
  BY DEF Named, Answers
<1> QED
  BY <1>1, <1>2, <1>3, <1>4, <1>5, <1>6, <1>7, <1>8, <1>9, <1>10, <1>11 DEF Good

-----------------------------------------------------------------------------
(* A list that is read while it changes.                                   *)

ListsSpec == ListsInit /\ [][ListsNext]_listVars

RowRecords == [made : BOOLEAN, fits : BOOLEAN, place : Int]

\* The operators of Lists on a given table of rows.
ListedIn(rows, choice) ==
  {i \in RowIds : rows[i].made /\ (choice = "all" \/ rows[i].fits)}
Ahead(rows, order, i, j) ==
  CASE order = "newest" -> i > j
    [] order = "oldest" -> i < j
    [] order = "dated" -> rows[i].place > rows[j].place \/ (rows[i].place = rows[j].place /\ i > j)
    [] order = "alike" -> rows[i].place > rows[j].place
    [] order = "named" -> rows[i].place < rows[j].place
Precedence(rows, order) == {p \in RowIds \X RowIds : Ahead(rows, order, p[1], p[2])}
TiedIn(rows, choice, order) ==
  \E i, j \in ListedIn(rows, choice) :
    i # j /\ ~Ahead(rows, order, i, j) /\ ~Ahead(rows, order, j, i)

FirstPage == Answers(asked, 0)[list]

ListsTypes ==
  /\ list \in Named /\ asked \in Limits
  /\ row \in [RowIds -> RowRecords]
  /\ offset \in Nat /\ done \in BOOLEAN
  /\ shown \in [RowIds -> Nat]
  /\ left \in Nat /\ came \in Nat /\ drops \in Nat
  /\ tied \in BOOLEAN

Unseen(among) == {i \in steady \cap among : shown[i] = 0}
Repeated(behind) == {i \in RowIds : shown[i] > 1} \cup {i \in behind : shown[i] > 0}

\* The rows before the next page are the first ones, as many as were received:
\* at most one of them was not seen for each that left, and at most one of the
\* others was for each that came.
InStep ==
  /\ Answer.from = offset
  /\ \E first :
       /\ IsFirst(first, offset, Precedence(row, FirstPage.order), Listed)
       /\ Cardinality(Unseen(first)) <= left
       /\ list # "calculations" => Cardinality(Repeated(Listed \ first)) <= came

\* Once a page of calculations was not full every row was in a page.
PastTheEnd == list = "calculations" /\ Cardinality(Unseen(steady)) <= left

ListsInv ==
  /\ ListsTypes
  /\ steady \subseteq Listed
  /\ ~tied => ~Tied(Answer)
  /\ FirstPage.limit = 0 /\ ~done => offset = 0 /\ \A i \in RowIds : shown[i] = 0
  /\ IF done THEN PagesShowAll
     ELSE ~tied /\ drops = 0 /\ FirstPage.limit # 0 => InStep \/ PastTheEnd

LEMMA RowsAre == IsFiniteSet(RowIds) /\ RowIds \subseteq Int
<1>1. MaxRows \in Nat
  BY ListsAssumption
<1>2. IsFiniteSet(1..MaxRows) /\ 1..MaxRows \subseteq Int
  BY <1>1, FS_Interval
<1> QED
  BY <1>2 DEF RowIds

\* Without two rows at the same place each order of a list puts them one after
\* the other.
LEMMA AheadOrders ==
  ASSUME NEW rows \in [RowIds -> RowRecords], NEW order \in OrderChoices, NEW choice \in RowChoices,
         ~TiedIn(rows, choice, order)
  PROVE  Orders(Precedence(rows, order), ListedIn(rows, choice)) /\ IsFiniteSet(ListedIn(rows, choice))
<1>1. ListedIn(rows, choice) \subseteq RowIds
  BY DEF ListedIn
<1>2. \A i, j \in RowIds : <<i, j>> \in Precedence(rows, order) <=> Ahead(rows, order, i, j)
  BY DEF Precedence
<1>3. \A i \in RowIds : rows[i].place \in Int /\ i \in Int
  BY RowsAre DEF RowRecords
<1>4. \A i, j \in RowIds : Ahead(rows, order, i, j) => ~Ahead(rows, order, j, i)
  <2>1. CASE order = "newest"
    BY <1>3, <2>1 DEF Ahead
  <2>2. CASE order = "oldest"
    BY <1>3, <2>2 DEF Ahead
  <2>3. CASE order = "dated"
    BY <1>3, <2>3 DEF Ahead
  <2>4. CASE order = "alike"
    BY <1>3, <2>4 DEF Ahead
  <2>5. CASE order = "named"
    BY <1>3, <2>5 DEF Ahead
  <2> QED
    BY <2>1, <2>2, <2>3, <2>4, <2>5 DEF OrderChoices
<1>5. \A i, j, k \in RowIds : Ahead(rows, order, i, j) /\ Ahead(rows, order, j, k) => Ahead(rows, order, i, k)
  <2>1. CASE order = "newest"
    BY <1>3, <2>1 DEF Ahead
  <2>2. CASE order = "oldest"
    BY <1>3, <2>2 DEF Ahead
  <2>3. CASE order = "dated"
    BY <1>3, <2>3 DEF Ahead
  <2>4. CASE order = "alike"
    BY <1>3, <2>4 DEF Ahead
  <2>5. CASE order = "named"
    BY <1>3, <2>5 DEF Ahead
  <2> QED
    BY <2>1, <2>2, <2>3, <2>4, <2>5 DEF OrderChoices
<1>6. \A i, j \in ListedIn(rows, choice) : i # j => Ahead(rows, order, i, j) \/ Ahead(rows, order, j, i)
  BY DEF TiedIn
<1> QED
  BY <1>1, <1>2, <1>4, <1>5, <1>6, RowsAre, FS_Subset DEF Orders

\* What the definitions of Lists say of the tables, now and after a step.
LEMMA AnswerIs ==
  ASSUME ListsTypes
  PROVE  /\ Follows(Answer, FirstPage, list, offset)
         /\ Listed = ListedIn(row, FirstPage.rows)
         /\ Tied(Answer) <=> TiedIn(row, FirstPage.rows, FirstPage.order)
<1>1. Follows(Answer, FirstPage, list, offset)
  BY AnswersFollow DEF ListsTypes, Answer, FirstPage
<1>2. Answer.rows = FirstPage.rows /\ Answer.order = FirstPage.order /\ FirstPage.rows \in RowChoices
  BY <1>1 DEF Follows
<1>3. RowsOf(Answer) = ListedIn(row, FirstPage.rows)
  BY <1>2 DEF RowsOf, Made, Fitting, ListedIn, RowChoices
<1>4. \A i, j : Before(Answer.order, i, j) <=> Ahead(row, FirstPage.order, i, j)
  BY <1>2 DEF Before, Ahead
<1> QED
  BY <1>1, <1>3, <1>4 DEF Listed, Tied, TiedIn

LEMMA AnswerWillBe ==
  ASSUME ListsTypes, list' = list, asked' = asked, offset' \in Nat
  PROVE  /\ FirstPage' = FirstPage
         /\ Follows(Answer', FirstPage, list, offset')
         /\ Listed' = ListedIn(row', FirstPage.rows)
         /\ Tied(Answer)' <=> TiedIn(row', FirstPage.rows, FirstPage.order)
<1>1. Follows(Answer', FirstPage, list, offset') /\ FirstPage' = FirstPage
  BY AnswersFollow DEF ListsTypes, Answer, FirstPage
<1>2. Answer'.rows = FirstPage.rows /\ Answer'.order = FirstPage.order /\ FirstPage.rows \in RowChoices
  BY <1>1 DEF Follows
<1>3. RowsOf(Answer)' = ListedIn(row', FirstPage.rows)
  BY <1>2 DEF RowsOf, Made, Fitting, ListedIn, RowChoices
<1>4. Tied(Answer)' <=> TiedIn(row', FirstPage.rows, FirstPage.order)
  BY <1>2, <1>3 DEF Tied, TiedIn, Before, Ahead
<1> QED
  BY <1>1, <1>3, <1>4 DEF Listed

\* The rows from an offset on, as many as the limit or all that are left.
LEMMA WindowIs ==
  ASSUME NEW T, NEW s \in Seq(T), NEW from \in Nat, NEW limit \in Nat \ {0}
  PROVE  IsPage(ToSet(Window(s, from, limit)), s, from, PageEnd(s, from, limit))
<1> DEFINE e == PageEnd(s, from, limit)
           w == SubSeq(s, from + 1, e)
<1>1. Len(s) \in Nat /\ e \in Nat
  BY DEF PageEnd
<1>2. Window(s, from, limit) = w
  <2>1. Min({from + limit, Len(s)}) = e
    BY <1>1 DEF Min, PageEnd
  <2> HIDE DEF e
  <2> QED
    BY <2>1 DEF Window
<1>3. w = [i \in 1..(IF from + 1 <= e THEN e - from ELSE 0) |-> s[from + i]]
  BY <1>1
<1> HIDE DEF e
<1>4. ASSUME NEW i \in DOMAIN w PROVE from + i \in (from + 1)..e /\ w[i] = s[from + i]
  <2>1. i \in 1..(IF from + 1 <= e THEN e - from ELSE 0)
    BY <1>3
  <2> QED
    BY <1>1, <1>3, <2>1
<1>5. \A a \in (from + 1)..e : a - from \in DOMAIN w /\ w[a - from] = s[a]
  BY <1>1, <1>3
<1>6. ToSet(w) = {w[i] : i \in DOMAIN w}
  BY DEF ToSet
<1> HIDE DEF w
<1>7. ASSUME NEW x \in ToSet(w) PROVE \E a \in (from + 1)..e : x = s[a]
  BY <1>4, <1>6, <1>7
<1>8. ASSUME NEW a \in (from + 1)..e PROVE s[a] \in ToSet(w)
  BY <1>5, <1>6
<1>9. \A x : x \in ToSet(Window(s, from, limit)) <=> \E a \in (from + 1)..e : x = s[a]
  BY <1>2, <1>7, <1>8
<1> QED
  BY <1>9 DEF e, IsPage

\* A page is of the rows it is a page of, and without a limit it has them all.
LEMMA WindowsAre ==
  ASSUME NEW S, IsFiniteSet(S), NEW s \in SetToSeqs(S), NEW from, NEW limit \in Nat,
         limit # 0 => from \in Nat
  PROVE  /\ ToSet(Window(s, from, limit)) \subseteq S
         /\ limit = 0 => ToSet(Window(s, from, limit)) = S
<1> DEFINE n == Cardinality(S)
<1>1. n \in Nat
  BY FS_CardinalityType
<1>2. s \in [1..n -> S] /\ (\A x \in S : \E a \in 1..n : s[a] = x) /\ Len(s) = n /\ s \in Seq(S)
  <2>1. s \in [1..n -> S] /\ \A a, b \in 1..n : s[a] = s[b] => a = b
    BY DEF SetToSeqs
  <2>2. Len(s) = n /\ s \in Seq(S)
    BY <1>1, <2>1
  <2>3. IsFiniteSet(1..n) /\ Cardinality(1..n) = n
    BY <1>1, FS_Interval
  <2> DEFINE T == {s[a] : a \in 1..n}
  <2>4. s \in Bijection(1..n, T)
    BY <2>1 DEF Bijection, Injection, Surjection, IsInjective
  <2>5. T \in SUBSET S
    BY <2>1
  <2>6. Cardinality(T) = n
    <3> HIDE DEF T
    <3> QED
      BY <1>1, <2>4, FS_CountingElements DEF ExistsBijection
  <2>7. T = S
    <3> HIDE DEF T
    <3> QED
      BY <2>5, <2>6, Sizes
  <2> QED
    BY <2>1, <2>2, <2>7
<1>3. ToSet(s) = S
  BY <1>2 DEF ToSet
<1>4. CASE limit = 0
  BY <1>3, <1>4 DEF Window
<1>5. CASE limit # 0
  <2> DEFINE e == PageEnd(s, from, limit)
  <2>1. \A x \in ToSet(Window(s, from, limit)) : \E a \in (from + 1)..e : x = s[a]
    BY <1>2, <1>5, WindowIs DEF IsPage
  <2>2. \A a \in (from + 1)..e : a \in 1..n
    <3>1. from \in Nat
      BY <1>5
    <3> QED
      BY <1>1, <1>2, <3>1 DEF PageEnd
  <2> HIDE DEF e
  <2> QED
    BY <1>2, <1>5, <2>1, <2>2
<1> QED
  BY <1>4, <1>5

\* Rows are finitely many.
LEMMA Count ==
  ASSUME NEW A \in SUBSET RowIds
  PROVE  /\ IsFiniteSet(A) /\ Cardinality(A) \in Nat
         /\ \A B \in SUBSET A : IsFiniteSet(B) /\ Cardinality(B) \in Nat /\ Cardinality(B) <= Cardinality(A)
<1>1. IsFiniteSet(A)
  BY RowsAre, FS_Subset
<1> QED
  BY <1>1, Sizes

\* What is first after a page, and what it needs of the page.
LEMMA Turned ==
  ASSUME NEW S, IsFiniteSet(S), NEW R, Orders(R, S), NEW s \in SetToSeqs(S),
         Ranked(s, R),
         NEW n \in Nat, NEW limit \in Nat \ {0}, NEW F, IsFirst(F, n, R, S),
         NEW page, page = ToSet(Window(s, n, limit))
  PROVE  /\ page \subseteq S /\ F \cap page = {} /\ (page = {} => F = S)
         /\ IsFiniteSet(page) /\ Cardinality(page) \in Nat
         /\ IsFirst(F \cup page, n + Cardinality(page), R, S)
         /\ F \cup page = S \/ Cardinality(page) = limit
<1>1. /\ page \subseteq S /\ IsFirst(F \cup page, n + limit, R, S)
      /\ F \cap page = {}
      /\ page = {} => F = S
  <2>1. s \in Seq(S)
    <3>1. 0 \in 0..Cardinality(S) /\ Cardinality(S) \in Nat
      BY FS_CardinalityType
    <3> QED
      BY <3>1, Heads
  <2>2. IsPage(page, s, n, PageEnd(s, n, limit))
    BY <2>1, WindowIs
  <2>3. IsFirst(F \cup page, n + limit, R, S)
    BY <2>2, PageIs
  <2>4. page \subseteq S /\ F \cap page = {} /\ (page = {} => F = S)
    BY <2>2, <2>3, PageIs
  <2> QED
    BY <2>3, <2>4
<1>2. /\ IsFiniteSet(F) /\ IsFiniteSet(page) /\ Cardinality(F) \in Nat /\ Cardinality(page) \in Nat
      /\ Cardinality(S) \in Nat /\ Cardinality(F) <= Cardinality(S)
      /\ Cardinality(F \cup page) = Cardinality(S) => F \cup page = S
      /\ Cardinality(F) = Cardinality(S) => F = S
  <2>1. F \in SUBSET S /\ page \in SUBSET S /\ F \cup page \in SUBSET S
    BY <1>1 DEF IsFirst
  <2> QED
    BY <2>1, Sizes
<1>3. Cardinality(F \cup page) = Cardinality(F) + Cardinality(page)
  <2>1. Cardinality(F \cup page) = Cardinality(F) + Cardinality(page) - Cardinality(F \cap page)
    BY <1>2, FS_Union
  <2>2. Cardinality(F \cap page) = 0
    BY <1>1, FS_EmptySet
  <2> QED
    BY <1>2, <2>1, <2>2
<1>4. CASE n < Cardinality(S)
  <2>1. Cardinality(F) = n
    BY <1>4 DEF IsFirst
  <2> QED
    BY <1>1, <1>2, <1>3, <1>4, <2>1 DEF IsFirst
<1>5. CASE ~(n < Cardinality(S))
  <2>1. F = S
    BY <1>2, <1>5 DEF IsFirst
  <2>2. F \cup page = S /\ Cardinality(page) = 0
    BY <1>1, <2>1, FS_EmptySet
  <2> QED
    BY <1>1, <1>2, <1>5, <2>1, <2>2 DEF IsFirst
<1> QED
  BY <1>4, <1>5

\* The next page of calculations begins where this one ended, if that was full.
LEMMA Multiples ==
  ASSUME NEW o \in Nat, NEW l \in Nat \ {0}, (o \div l) * l = o
  PROVE  ((o + l) \div l) * l = o + l
<1> DEFINE q == o \div l
           k == (o + l) \div l
<1>1. q \in Nat /\ k \in Nat
  OBVIOUS
<1>2. k * l <= o + l /\ o + l < (k + 1) * l
  OBVIOUS
<1>3. o + l = (q + 1) * l
  BY <1>1
<1>4. k = q + 1
  <2> HIDE DEF q, k
  <2>1. CASE k < q + 1
    <3>1. k + 1 <= q + 1
      BY <1>1, <2>1
    <3>2. (k + 1) * l <= (q + 1) * l
      BY <1>1, <3>1
    <3> QED
      BY <1>1, <1>2, <1>3, <3>2
  <2>2. CASE k > q + 1
    <3>2. (k) * l >= (q + 1) * l + l
      BY <1>1, <2>2
    <3> QED
      BY <1>1, <1>2, <1>3, <3>2
  <2> QED
    BY <1>1, <2>1, <2>2
<1> QED
  BY <1>3, <1>4

\* A page that is full brings the next one in step; one that is empty means that
\* all rows are before it.
LEMMA ReadPageKeeps == ListsInv /\ ReadPage => ListsInv'
<1> SUFFICES ASSUME ListsInv, ReadPage PROVE ListsInv'
  OBVIOUS
<1> DEFINE R == Precedence(row, FirstPage.order)
<1>1. PICK s \in Pages(Answer) : \E dropped \in SUBSET ToSet(s) :
        LET got == ToSet(s) \ dropped IN
        /\ dropped # {} => Answer.drops /\ drops + Cardinality(dropped) <= MaxDrops
        /\ drops' = drops + Cardinality(dropped)
        /\ shown' = [i \in RowIds |-> IF i \in got THEN shown[i] + 1 ELSE shown[i]]
        /\ offset' = offset + Cardinality(got)
        /\ done' = (Answer.limit = 0 \/ got = {})
  BY Zenon DEF ReadPage
<1>0. PICK dropped \in SUBSET ToSet(s) :
        /\ drops' = drops + Cardinality(dropped)
        /\ shown' = [i \in RowIds |-> IF i \in ToSet(s) \ dropped THEN shown[i] + 1 ELSE shown[i]]
        /\ offset' = offset + Cardinality(ToSet(s) \ dropped)
        /\ done' = (Answer.limit = 0 \/ ToSet(s) \ dropped = {})
  BY <1>1, Zenon
<1> DEFINE got == ToSet(s) \ dropped
<1>2. ListsTypes
  BY DEF ListsInv
<1>3. /\ Follows(Answer, FirstPage, list, offset)
      /\ Listed = ListedIn(row, FirstPage.rows)
      /\ Tied(Answer) <=> TiedIn(row, FirstPage.rows, FirstPage.order)
  BY <1>2, AnswerIs
<1>4. /\ Answer.limit = FirstPage.limit /\ FirstPage.limit \in Nat /\ Answer.order = FirstPage.order
      /\ Answer.limit # 0 => Answer.from \in Nat
  BY <1>2, <1>3 DEF Follows, ListsTypes
<1>5. Listed \in SUBSET RowIds /\ IsFiniteSet(Listed)
  <2>1. Listed \subseteq RowIds
    BY <1>3 DEF ListedIn
  <2> QED
    BY <2>1, RowsAre, FS_Subset
<1>6. PICK q \in SetToSeqs(Listed) : s = Window(q, Answer.from, Answer.limit) /\ Ranked(q, R)
  <2>1. PICK q \in Ordered(Answer) : s = Window(q, Answer.from, Answer.limit)
    BY DEF Pages
  <2>2. q \in SetToSeqs(Listed) /\ \A a, b \in 1..Len(q) : a < b => ~Before(Answer.order, q[b], q[a])
    BY <2>1 DEF Ordered, Listed
  <2>3. Ranked(q, R)
    BY <1>4, <2>2 DEF Ranked, Precedence, Before, Ahead
  <2> QED
    BY <2>1, <2>2, <2>3
<1>7. ToSet(s) \subseteq Listed /\ (Answer.limit = 0 => ToSet(s) = Listed)
  BY <1>4, <1>5, <1>6, WindowsAre
<1>8. /\ IsFiniteSet(got) /\ Cardinality(got) \in Nat
      /\ IsFiniteSet(dropped) /\ Cardinality(dropped) \in Nat
  <2>1. got \in SUBSET RowIds /\ dropped \in SUBSET RowIds
    BY <1>5, <1>7
  <2> QED
    BY <2>1, Count
<1>9. UNCHANGED <<list, row, asked, steady, left, came, tied>> /\ ~done
  BY DEF ReadPage
<1>10. offset' \in Nat /\ drops' \in Nat
  BY <1>0, <1>2, <1>8 DEF ListsTypes
<1>11. ListsTypes'
  <2>1. shown' \in [RowIds -> Nat]
    BY <1>0, <1>2 DEF ListsTypes
  <2>2. done' \in BOOLEAN
    BY <1>0
  <2> QED
    BY <1>2, <1>9, <1>10, <2>1, <2>2 DEF ListsTypes
<1>12. /\ FirstPage' = FirstPage
       /\ Follows(Answer', FirstPage, list, offset')
       /\ Listed' = Listed
       /\ Tied(Answer)' <=> Tied(Answer)
  <2>1. /\ FirstPage' = FirstPage
        /\ Follows(Answer', FirstPage, list, offset')
        /\ Listed' = ListedIn(row', FirstPage.rows)
        /\ Tied(Answer)' <=> TiedIn(row', FirstPage.rows, FirstPage.order)
    BY <1>2, <1>9, <1>10, AnswerWillBe
  <2> QED
    BY <1>3, <1>9, <2>1
<1>13. steady' \subseteq Listed' /\ (~tied' => ~Tied(Answer)')
  BY <1>9, <1>12 DEF ListsInv
<1>14. FirstPage'.limit = 0 => done'
  BY <1>0, <1>4, <1>12
<1> HIDE DEF R
<1>15. ASSUME ~tied, drops' = 0
       PROVE  IF done' THEN PagesShowAll' ELSE (InStep \/ PastTheEnd)'
  <2> DEFINE S == Listed
             U(A) == {i \in steady \cap A : shown[i] = 0}
             V(A) == {i \in steady \cap A : shown'[i] = 0}
             More == {i \in RowIds : shown[i] > 1}
             MoreNow == {i \in RowIds : shown'[i] > 1}
             Behind(A) == {i \in Listed \ A : shown[i] > 0}
             BehindNow(A) == {i \in Listed \ A : shown'[i] > 0}
  <2>1. got = ToSet(s)
    <3>1. Cardinality(dropped) = 0
      BY <1>0, <1>2, <1>8, <1>15 DEF ListsTypes
    <3>2. dropped = {}
      BY <1>8, <3>1, FS_EmptySet
    <3> QED
      BY <3>2
  <2>2. \A i \in RowIds : shown[i] \in Nat /\ shown'[i] = IF i \in got THEN shown[i] + 1 ELSE shown[i]
    BY <1>0, <1>2 DEF ListsTypes
  <2>3. Orders(R, Listed)
    <3>1. ~TiedIn(row, FirstPage.rows, FirstPage.order)
      BY <1>3, <1>15 DEF ListsInv
    <3>2. FirstPage.rows \in RowChoices /\ FirstPage.order \in OrderChoices
      BY <1>3 DEF Follows
    <3> QED
      BY <1>2, <1>3, <3>1, <3>2, AheadOrders DEF R, ListsTypes
  <2>4. done' <=> (Answer.limit = 0 \/ got = {})
    BY <1>0
  <2>5. steady \subseteq Listed /\ left \in Nat /\ came \in Nat
    BY <1>2 DEF ListsInv, ListsTypes
  <2>6. \A A : U(A) \in SUBSET RowIds /\ V(A) \in SUBSET RowIds
    BY <1>5, <2>5
  <2>7. drops = 0
    BY <1>0, <1>2, <1>8, <1>15 DEF ListsTypes
  <2>8. CASE Answer.limit = 0
    <3>1. got = Listed /\ \A i \in RowIds : shown[i] = 0
      BY <1>4, <1>7, <1>9, <2>1, <2>8 DEF ListsInv
    <3>2. V(steady) = {} /\ MoreNow = {}
      BY <1>5, <2>2, <2>5, <3>1
    <3>3. {i \in steady' : shown'[i] = 0} = {} /\ {i \in RowIds : shown'[i] > 1} = {}
      BY <1>9, <3>2
    <3>4. PagesShowAll'
      BY <1>9, <2>5, <3>3, FS_EmptySet DEF PagesShowAll
    <3> QED
      BY <2>4, <2>8, <3>4
  <2>9. CASE Answer.limit # 0 /\ PastTheEnd
    <3>1. V(steady) \subseteq U(steady)
      BY <1>5, <2>2, <2>5
    <3>2. Cardinality(U(steady)) <= left
      BY <2>9 DEF PastTheEnd, Unseen
    <3> HIDE DEF U
    <3>3. Cardinality(V(steady)) <= left
      <4>1. V(steady) \in SUBSET U(steady) /\ U(steady) \in SUBSET RowIds
        BY <2>6, <3>1
      <4> HIDE DEF V
      <4>2. Cardinality(V(steady)) \in Nat /\ Cardinality(U(steady)) \in Nat
            /\ Cardinality(V(steady)) <= Cardinality(U(steady))
        BY <4>1, Count
      <4> QED
        BY <2>5, <3>2, <4>2
    <3>4. list' = "calculations" /\ left' = left /\ Unseen(steady)' = V(steady)
          /\ {i \in steady' : shown'[i] = 0} = V(steady)
      BY <1>9, <2>9 DEF PastTheEnd, Unseen
    <3> HIDE DEF V
    <3>5. PagesShowAll' /\ PastTheEnd'
      BY <3>3, <3>4 DEF PagesShowAll, PastTheEnd
    <3> QED
      BY <3>5
  <2>10. CASE Answer.limit # 0 /\ InStep
    <3> DEFINE limit == Answer.limit
    <3>1. limit \in Nat \ {0} /\ offset \in Nat /\ Answer.from = offset
      BY <1>2, <1>4, <2>10 DEF InStep, ListsTypes
    <3>2. PICK first : /\ IsFirst(first, offset, R, Listed)
                       /\ Cardinality(U(first)) <= left
                       /\ list # "calculations" => Cardinality(More \cup Behind(first)) <= came
      BY <2>10 DEF InStep, Unseen, Repeated, R
    <3>3. got = ToSet(Window(q, offset, limit))
      BY <1>6, <2>1, <3>1
    <3> DEFINE next == first \cup got
    <3>4. /\ IsFirst(next, offset + Cardinality(got), R, Listed)
          /\ got \subseteq Listed /\ first \cap got = {} /\ (got = {} => first = Listed)
          /\ next = Listed \/ Cardinality(got) = limit
      <4> HIDE DEF got, limit
      <4> QED
        BY <1>5, <1>6, <2>3, <3>1, <3>2, <3>3, Turned
    <3>5. first \subseteq Listed
      BY <3>2 DEF IsFirst
    <3>6. V(next) \in SUBSET U(first)
      BY <1>5, <2>2, <2>5, <3>5
    <3>7. MoreNow \cup BehindNow(next) \in SUBSET (More \cup Behind(first))
      <4>1. MoreNow \subseteq More \cup Behind(first)
        BY <1>5, <2>2, <3>4
      <4>2. BehindNow(next) \subseteq Behind(first)
        BY <1>5, <2>2, <3>4
      <4> QED
        BY <4>1, <4>2
    <3>8. More \cup Behind(first) \in SUBSET RowIds
      BY <1>5
    <3> HIDE DEF U, V, More, MoreNow, Behind, BehindNow
    <3>9. Cardinality(V(next)) <= left
      <4>1. Cardinality(V(next)) \in Nat /\ Cardinality(U(first)) \in Nat
            /\ Cardinality(V(next)) <= Cardinality(U(first))
        BY <2>6, <3>6, Count
      <4> QED
        BY <2>5, <3>2, <4>1
    <3>10. ASSUME list # "calculations", NEW T \in SUBSET (MoreNow \cup BehindNow(next))
           PROVE  Cardinality(T) <= came
      <4> DEFINE B == More \cup Behind(first)
      <4>1. T \in SUBSET B /\ B \in SUBSET RowIds
        BY <3>7, <3>8
      <4>2. Cardinality(B) <= came
        BY <3>2, <3>10
      <4> HIDE DEF B
      <4>3. Cardinality(T) \in Nat /\ Cardinality(B) \in Nat /\ Cardinality(T) <= Cardinality(B)
        BY <4>1, Count
      <4> QED
        BY <2>5, <4>2, <4>3
    <3>11. CASE got = {}
      <4>1. next = Listed /\ steady \cap next = steady
        BY <2>5, <3>4, <3>11
      <4>2. {i \in steady' : shown'[i] = 0} = V(next)
        BY <1>9, <4>1 DEF V
      <4>3. {i \in RowIds : shown'[i] > 1} = MoreNow
        BY DEF MoreNow
      <4>4. list # "calculations" => Cardinality(MoreNow) <= came
        BY <3>10
      <4>5. PagesShowAll'
        BY <1>9, <3>9, <4>2, <4>3, <4>4 DEF PagesShowAll
      <4> QED
        BY <2>4, <3>11, <4>5
    <3>12. CASE got # {}
      <4>1. ~done'
        BY <2>4, <2>10, <3>12
      <4>2. offset' = offset + Cardinality(got)
        BY <1>0
      <4>3. CASE Answer'.from = offset'
        <5>1. PICK N : N = next
          OBVIOUS
        <5>2. IsFirst(N, offset', Precedence(row', FirstPage'.order), Listed')
          BY <1>9, <1>12, <3>4, <4>2, <5>1 DEF R
        <5>3. Cardinality({i \in steady' \cap N : shown'[i] = 0}) <= left'
          BY <1>9, <3>9, <5>1 DEF V
        <5>4. list' # "calculations" =>
                Cardinality({i \in RowIds : shown'[i] > 1} \cup {i \in Listed' \ N : shown'[i] > 0}) <= came'
          BY <1>9, <1>12, <3>10, <5>1 DEF MoreNow, BehindNow
        <5>5. InStep'
          BY <4>3, <5>2, <5>3, <5>4 DEF InStep, Unseen, Repeated
        <5> QED
          BY <4>1, <5>5
      <4>4. CASE Answer'.from # offset'
        <5>1. FirstPage.limit = limit /\ limit # 0
          BY <1>4, <2>10
        <5>2. list = "calculations"
          BY <1>12, <4>4, <5>1 DEF Follows
        <5>3. /\ (offset \div limit) * limit = offset
              /\ (offset' \div limit) * limit # offset'
          BY <1>3, <1>12, <3>1, <4>4, <5>1, <5>2 DEF Follows
        <5>4. Cardinality(got) # limit
          BY <3>1, <4>2, <5>3, Multiples
        <5>5. next = Listed /\ steady \cap next = steady
          BY <2>5, <3>4, <5>4
        <5>6. {i \in steady' \cap steady' : shown'[i] = 0} = V(next)
          BY <1>9, <5>5 DEF V
        <5>7. PastTheEnd'
          BY <1>9, <3>9, <5>2, <5>6 DEF PastTheEnd, Unseen
        <5> QED
          BY <4>1, <5>7
      <4> QED
        BY <4>1, <4>3, <4>4
    <3> QED
      BY <3>11, <3>12
  <2> QED
    BY <1>4, <1>9, <1>15, <2>7, <2>8, <2>9, <2>10 DEF ListsInv
<1>16. CASE done'
  <2>1. PagesShowAll'
    BY <1>9, <1>15, <1>16 DEF PagesShowAll
  <2> QED
    BY <1>11, <1>13, <1>14, <1>16, <2>1 DEF ListsInv
<1>17. CASE ~done'
  BY <1>9, <1>11, <1>13, <1>14, <1>15, <1>17 DEF ListsInv
<1> QED
  BY <1>16, <1>17

LEMMA OneMore ==
  ASSUME NEW A \in SUBSET RowIds, NEW B \in SUBSET RowIds, NEW y, A \subseteq B \cup {y}
  PROVE  Cardinality(A) <= Cardinality(B) + 1
<1>1. A \ {y} \in SUBSET B
  OBVIOUS
<1>2. /\ IsFiniteSet(A) /\ Cardinality(A) \in Nat /\ Cardinality(B) \in Nat
      /\ Cardinality(A \ {y}) \in Nat /\ Cardinality(A \ {y}) <= Cardinality(B)
  BY <1>1, Count
<1>3. CASE y \in A
  <2>1. Cardinality(A \ {y}) = Cardinality(A) - 1
    BY <1>2, <1>3, Sizes
  <2> QED
    BY <1>2, <2>1
<1>4. CASE y \notin A
  <2>1. A \in SUBSET B
    BY <1>4
  <2>2. Cardinality(A) <= Cardinality(B)
    BY <2>1, Count
  <2> QED
    BY <1>2, <2>2
<1> QED
  BY <1>3, <1>4

\* A row that leaves, comes or moves.
LEMMA BecomesKeeps ==
  ASSUME ListsInv, Meanwhile, NEW i \in RowIds, NEW r \in RowRecords, Becomes(i, r)
  PROVE  ListsInv'
<1> DEFINE rows == FirstPage.rows
           order == FirstPage.order
           S == ListedIn(row, rows)
           T == ListedIn(row', rows)
           M == S \ {i}
           R == Precedence(row, order)
           Q == Precedence(row', order)
<1>1. ListsTypes /\ ~done /\ left' \in Nat /\ came' \in Nat
  BY DEF ListsInv, ListsTypes, Meanwhile, Becomes
<1>2. /\ row' = [row EXCEPT ![i] = r] /\ steady' = steady \ {i}
      /\ left' = (IF i \in Listed THEN left + 1 ELSE left)
      /\ UNCHANGED <<list, asked, offset, done, shown, drops>>
      /\ came' = (IF i \in Listed' THEN came + 1 ELSE came)
      /\ tied' = (tied \/ Tied(Answer)')
  BY DEF Becomes
<1>3. row' \in [RowIds -> RowRecords] /\ \A j \in RowIds : j # i => row'[j] = row[j]
  BY <1>1, <1>2 DEF ListsTypes
<1>4. ListsTypes'
  <2>1. left' \in Nat /\ came' \in Nat /\ tied' \in BOOLEAN
    BY <1>1, <1>2 DEF ListsTypes
  <2> QED
    BY <1>1, <1>2, <1>3, <2>1 DEF ListsTypes
<1>5. /\ Follows(Answer, FirstPage, list, offset) /\ Listed = S
      /\ Tied(Answer) <=> TiedIn(row, rows, order)
  BY <1>1, AnswerIs
<1>6. /\ FirstPage' = FirstPage /\ Answer' = Answer /\ Listed' = T
      /\ Tied(Answer)' <=> TiedIn(row', rows, order)
  <2>1. offset' \in Nat
    BY <1>4 DEF ListsTypes
  <2>2. Answer' = Answer
    BY <1>2 DEF Answer
  <2> QED
    BY <1>1, <1>2, <2>1, <2>2, AnswerWillBe
<1>7. M = T \ {i} /\ S \subseteq RowIds /\ T \subseteq RowIds
  BY <1>3 DEF ListedIn
<1>8. \A j, k \in M : <<j, k>> \in R <=> <<j, k>> \in Q
  BY <1>3, <1>7 DEF Precedence, Ahead
<1>9. steady' \subseteq Listed' /\ (~tied' => ~tied /\ ~Tied(Answer)' /\ ~Tied(Answer))
  BY <1>2, <1>5, <1>6, <1>7 DEF ListsInv
<1>10. FirstPage'.limit = 0 /\ ~done' => offset' = 0 /\ \A j \in RowIds : shown'[j] = 0
  BY <1>2, <1>6 DEF ListsInv
<1> HIDE DEF R, Q, M, S, T
<1>11. ASSUME ~tied', drops = 0, InStep
       PROVE  InStep'
  <2> DEFINE n == offset
             U(A) == {j \in steady \cap A : shown[j] = 0}
             W(A) == {j \in steady' \cap A : shown[j] = 0}
             P(A) == {j \in RowIds : shown[j] > 1} \cup {j \in A : shown[j] > 0}
  <2>1. /\ Orders(R, S) /\ Orders(Q, T)
        /\ IsFiniteSet(S) /\ IsFiniteSet(T) /\ IsFiniteSet(M)
    <3>1. rows \in RowChoices /\ order \in OrderChoices
      BY <1>5 DEF Follows
    <3>2. ~TiedIn(row, rows, order) /\ ~TiedIn(row', rows, order)
      BY <1>5, <1>6, <1>9, <1>11
    <3>3. row \in [RowIds -> RowRecords]
      BY <1>1 DEF ListsTypes
    <3>4. Orders(R, S) /\ IsFiniteSet(S)
      BY <3>1, <3>2, <3>3, AheadOrders DEF R, S
    <3>5. Orders(Q, T) /\ IsFiniteSet(T)
      BY <1>3, <3>1, <3>2, AheadOrders DEF Q, T
    <3>6. M \subseteq S
      BY DEF M
    <3> QED
      BY <3>4, <3>5, <3>6, FS_Subset
  <2>2. PICK first : /\ IsFirst(first, n, R, S)
                     /\ Cardinality(U(first)) <= left
                     /\ list # "calculations" => Cardinality(P(S \ first)) <= came
    BY <1>5, <1>11 DEF InStep, Unseen, Repeated, R
  <2>3. n \in Nat /\ left \in Nat /\ came \in Nat
    BY <1>1 DEF ListsTypes
  <2>4. first \subseteq S /\ steady' \subseteq steady /\ i \notin steady' /\ S \subseteq RowIds /\ T \subseteq RowIds
    BY <1>2, <1>7, <2>2 DEF IsFirst
  <2>5. ASSUME NEW A \in SUBSET RowIds
        PROVE  U(A) \in SUBSET RowIds /\ W(A) \in SUBSET RowIds /\ P(A) \in SUBSET RowIds
    OBVIOUS
  <2>6. \E G : /\ IsFirst(G, n, R, M) /\ Cardinality(W(G)) <= left'
               /\ P(M \ G) \subseteq P(S \ first)
    <3>1. CASE i \in S
      <4>1. PICK G, y : /\ IsFirst(G, n, R, M)
                        /\ G \subseteq first \cup {y} /\ first \ {i} \subseteq G
        <5>1. FirstAfter(first, n, R, S, i)
          BY <2>1, <2>2, <2>3, <3>1, FirstWithout
        <5> QED
          BY <5>1 DEF M, FirstAfter
      <4>2. W(G) \subseteq U(first) \cup {y} /\ P(M \ G) \subseteq P(S \ first)
        BY <2>4, <4>1 DEF M
      <4>3. G \in SUBSET RowIds /\ first \in SUBSET RowIds
        BY <2>4, <4>1 DEF IsFirst, M
      <4>4. W(G) \in SUBSET RowIds /\ U(first) \in SUBSET RowIds
        BY <2>5, <4>3
      <4> HIDE DEF W, U, P
      <4>5. Cardinality(W(G)) <= Cardinality(U(first)) + 1
        BY <4>2, <4>4, OneMore
      <4>6. Cardinality(W(G)) \in Nat /\ Cardinality(U(first)) \in Nat /\ left' = left + 1
        BY <1>2, <1>5, <3>1, <4>4, Count
      <4>7. Cardinality(W(G)) <= left'
        BY <2>2, <2>3, <4>5, <4>6
      <4> QED
        BY <4>1, <4>2, <4>7
    <3>2. CASE i \notin S
      <4>1. M = S /\ left' = left
        BY <1>2, <1>5, <3>2 DEF M
      <4>2. W(first) \in SUBSET U(first) /\ U(first) \in SUBSET RowIds
        BY <2>4
      <4> HIDE DEF W, U, P
      <4>3. Cardinality(W(first)) \in Nat /\ Cardinality(U(first)) \in Nat
            /\ Cardinality(W(first)) <= Cardinality(U(first))
        BY <4>2, Count
      <4>4. Cardinality(W(first)) <= left'
        BY <2>2, <2>3, <4>1, <4>3
      <4> QED
        BY <2>2, <4>1, <4>4
    <3> QED
      BY <3>1, <3>2
  <2>7. PICK G : /\ IsFirst(G, n, Q, M) /\ Cardinality(W(G)) <= left'
                 /\ P(M \ G) \subseteq P(S \ first)
    <3>1. \A F : IsFirst(F, n, R, M) => IsFirst(F, n, Q, M)
      BY <1>8 DEF IsFirst
    <3> HIDE DEF W, P
    <3> QED
      BY <2>6, <3>1
  <2>8. G \subseteq M /\ M \subseteq RowIds
    BY <2>4, <2>7 DEF IsFirst, M
  <2>9. \E H, y : /\ IsFirst(H, n, Q, T) /\ H \subseteq G \cup {i}
                  /\ T \ H \subseteq (M \ G) \cup {y}
                  /\ i \notin T => T \ H = M \ G
    <3>1. CASE i \in T
      <4>1. i \notin M /\ T = M \cup {i}
        BY <1>7, <3>1
      <4>2. Orders(Q, M \cup {i})
        BY <2>1, <4>1
      <4>3. \E H, y : /\ IsFirst(H, n, Q, M \cup {i})
                      /\ H \subseteq G \cup {i} /\ (M \cup {i}) \ H \subseteq (M \ G) \cup {y}
        <5>1. IsFirst(G, n, Q, M) /\ n \in Nat /\ i \notin M /\ IsFiniteSet(M)
          BY <2>1, <2>3, <2>7, <4>1
        <5> HIDE DEF n, U, W, P
        <5> QED
          BY <4>2, <5>1, FirstWith
      <4> QED
        BY <3>1, <4>1, <4>3
    <3>2. CASE i \notin T
      <4>1. T = M
        BY <1>7, <3>2
      <4> QED
        BY <2>7, <4>1
    <3> QED
      BY <3>1, <3>2
  <2>10. PICK H, y : /\ IsFirst(H, n, Q, T) /\ H \subseteq G \cup {i}
                     /\ T \ H \subseteq (M \ G) \cup {y}
                     /\ i \notin T => T \ H = M \ G
    BY <2>9
  <2>11. Cardinality(W(H)) <= left'
    <3>1. W(H) \in SUBSET W(G) /\ W(G) \in SUBSET RowIds
      BY <2>4, <2>8, <2>10
    <3> HIDE DEF W
    <3>2. Cardinality(W(H)) \in Nat /\ Cardinality(W(G)) \in Nat
          /\ Cardinality(W(H)) <= Cardinality(W(G))
      BY <3>1, Count
    <3> QED
      BY <1>1, <2>7, <3>2
  <2>12. ASSUME list # "calculations"
         PROVE  Cardinality(P(T \ H)) <= came'
    <3> DEFINE old == P(S \ first)
               new == P(T \ H)
    <3>1. old \in SUBSET RowIds /\ new \in SUBSET RowIds /\ new \subseteq old \cup {y}
      BY <2>4, <2>7, <2>10
    <3>2. i \notin T => new \in SUBSET old
      BY <2>7, <2>10
    <3>3. Cardinality(old) <= came
      BY <2>2, <2>12
    <3> HIDE DEF old, new
    <3>4. Cardinality(old) \in Nat /\ Cardinality(new) \in Nat
          /\ Cardinality(new) <= Cardinality(old) + 1
          /\ (i \notin T => Cardinality(new) <= Cardinality(old))
      BY <3>1, <3>2, Count, OneMore
    <3>5. Cardinality(new) <= came'
      BY <1>2, <1>6, <2>3, <3>3, <3>4
    <3> QED
      BY <3>5 DEF new
  <2>13. IsFirst(H, offset', Precedence(row', FirstPage'.order), Listed')
    BY <1>2, <1>6, <2>10 DEF Q
  <2>14. Cardinality({j \in steady' \cap H : shown'[j] = 0}) <= left'
    BY <1>2, <2>11
  <2>15. list' # "calculations" =>
           Cardinality({j \in RowIds : shown'[j] > 1} \cup {j \in Listed' \ H : shown'[j] > 0}) <= came'
    BY <1>2, <1>6, <2>12
  <2>16. Answer'.from = offset'
    BY <1>2, <1>6, <1>11 DEF InStep
  <2> QED
    BY <2>13, <2>14, <2>15, <2>16 DEF InStep, Unseen, Repeated
<1>12. ASSUME PastTheEnd
       PROVE  PastTheEnd'
  <2> DEFINE old == {j \in steady \cap steady : shown[j] = 0}
             new == {j \in steady' \cap steady' : shown'[j] = 0}
  <2>1. new \in SUBSET old /\ old \in SUBSET RowIds
    BY <1>2, <1>5, <1>7 DEF ListsInv
  <2>2. Cardinality(old) <= left /\ list = "calculations"
    BY <1>12 DEF PastTheEnd, Unseen
  <2> HIDE DEF old, new
  <2>3. Cardinality(old) \in Nat /\ Cardinality(new) \in Nat /\ Cardinality(new) <= Cardinality(old)
    BY <2>1, Count
  <2>4. left \in Nat
    BY <1>1 DEF ListsTypes
  <2>5. Cardinality(new) <= left'
    BY <1>2, <2>2, <2>3, <2>4
  <2> QED
    BY <1>2, <2>2, <2>5 DEF PastTheEnd, Unseen, new
<1> QED
  BY <1>1, <1>2, <1>4, <1>6, <1>9, <1>10, <1>11, <1>12 DEF ListsInv

LEMMA ListsBegin == ListsInit => ListsInv
<1> SUFFICES ASSUME ListsInit PROVE ListsInv
  OBVIOUS
<1>1. /\ list \in Named /\ asked \in Limits /\ offset = 0 /\ done = FALSE
      /\ \A i \in RowIds : row[i].place \in PlacesOf(Answer)
      /\ shown = [i \in RowIds |-> 0] /\ steady = Listed
      /\ left = 0 /\ came = 0 /\ drops = 0 /\ tied = Tied(Answer)
  <2>1. 0 \in Limits
    BY ListsAssumption DEF Limits
  <2> QED
    BY <2>1 DEF ListsInit, Named
<1>2. row \in [RowIds -> RowRecords]
  <2>1. PICK made \in SUBSET RowIds : \E place \in [made -> 1..MaxPlaces], fits \in [made -> BOOLEAN] :
          row = [i \in RowIds |-> IF i \in made
                   THEN [made |-> TRUE, fits |-> fits[i], place |-> place[i]] ELSE Absent]
    BY DEF ListsInit
  <2>2. PICK place \in [made -> 1..MaxPlaces], fits \in [made -> BOOLEAN] :
          row = [i \in RowIds |-> IF i \in made
                   THEN [made |-> TRUE, fits |-> fits[i], place |-> place[i]] ELSE Absent]
    BY <2>1
  <2>3. Absent \in RowRecords
    BY DEF Absent, RowRecords
  <2>4. \A i \in made : [made |-> TRUE, fits |-> fits[i], place |-> place[i]] \in RowRecords
    BY ListsAssumption DEF RowRecords
  <2> QED
    BY <2>2, <2>3, <2>4
<1>3. ListsTypes
  <2>1. tied \in BOOLEAN
    BY <1>1 DEF Tied
  <2>2. shown \in [RowIds -> Nat] /\ \A i \in RowIds : shown[i] = 0
    BY <1>1
  <2> QED
    BY <1>1, <1>2, <2>1, <2>2 DEF ListsTypes
<1>4. \A i \in RowIds : shown[i] = 0
  BY <1>1
<1>5. Follows(Answer, FirstPage, list, offset)
  BY <1>3, AnswerIs
<1>6. ASSUME FirstPage.limit # 0 PROVE InStep
  <2>1. Answer.from = offset
    <3>1. FirstPage.limit \in Nat \ {0}
      BY <1>5, <1>6 DEF Follows
    <3>2. (0 \div FirstPage.limit) * FirstPage.limit = 0
      BY <3>1
    <3> QED
      BY <1>1, <1>5, <1>6, <3>2 DEF Follows
  <2>2. Cardinality({}) = 0
    BY FS_EmptySet
  <2>3. IsFirst({}, offset, Precedence(row, FirstPage.order), Listed)
    <3>1. Cardinality(Listed) \in Nat
      <4>1. Listed \in SUBSET RowIds
        BY <1>3, AnswerIs DEF ListedIn
      <4> QED
        BY <4>1, Count
    <3> QED
      BY <1>1, <2>2, <3>1 DEF IsFirst
  <2>4. Unseen({}) = {} /\ Repeated(Listed \ {}) = {}
    <3>1. Listed \subseteq RowIds
      BY <1>3, AnswerIs DEF ListedIn
    <3> QED
      BY <1>4, <3>1 DEF Unseen, Repeated
  <2>5. Cardinality(Unseen({})) <= left /\ Cardinality(Repeated(Listed \ {})) <= came
    BY <1>1, <2>2, <2>4
  <2> QED
    BY <2>1, <2>3, <2>5 DEF InStep
<1> QED
  BY <1>1, <1>3, <1>4, <1>6 DEF ListsInv

LEMMA ListsStep == ListsInv /\ [ListsNext]_listVars => ListsInv'
<1> SUFFICES ASSUME ListsInv, [ListsNext]_listVars PROVE ListsInv'
  OBVIOUS
<1>1. \A place \in 1..MaxPlaces : place \in Int
  OBVIOUS
<1>2. PlacesOf(Answer) \subseteq Int /\ row \in [RowIds -> RowRecords]
  BY <1>1 DEF PlacesOf, ListsInv, ListsTypes
<1>3. CASE ReadPage
  BY <1>3, ReadPageKeeps
<1>4. ASSUME NEW i \in RowIds, AddRow(i) PROVE ListsInv'
  <2>1. Meanwhile
    BY <1>4 DEF AddRow
  <2>2. PICK place \in PlacesOf(Answer) : Becomes(i, [made |-> TRUE, fits |-> TRUE, place |-> place])
    BY <1>4 DEF AddRow
  <2>3. [made |-> TRUE, fits |-> TRUE, place |-> place] \in RowRecords
    BY <1>2 DEF RowRecords
  <2> QED
    BY <2>1, <2>2, <2>3, BecomesKeeps
<1>5. ASSUME NEW i \in RowIds, MoveRow(i) PROVE ListsInv'
  <2> DEFINE r == [row[i] EXCEPT !.fits = ~@]
  <2>1. Meanwhile /\ Becomes(i, r)
    BY <1>5 DEF MoveRow
  <2>2. r \in RowRecords
    BY <1>2 DEF RowRecords
  <2> HIDE DEF r
  <2> QED
    BY <2>1, <2>2, BecomesKeeps
<1>6. ASSUME NEW i \in RowIds, Rename(i) PROVE ListsInv'
  <2>1. Meanwhile
    BY <1>6 DEF Rename
  <2>2. PICK place \in 1..MaxPlaces : Becomes(i, [row[i] EXCEPT !.place = place])
    BY <1>6 DEF Rename
  <2> DEFINE r == [row[i] EXCEPT !.place = place]
  <2>3. r \in RowRecords
    BY <1>1, <1>2 DEF RowRecords
  <2>4. Becomes(i, r)
    BY <2>2
  <2> HIDE DEF r
  <2> QED
    BY <2>1, <2>3, <2>4, BecomesKeeps
<1>7. CASE UNCHANGED listVars
  <2>1. UNCHANGED <<list, row, asked, offset, done, shown, steady, left, came, drops, tied>>
    BY <1>7 DEF listVars
  <2>2. ListsTypes /\ ListsTypes'
    BY <2>1 DEF ListsInv, ListsTypes
  <2>3. FirstPage' = FirstPage /\ Answer' = Answer
    BY <2>1 DEF Answer, FirstPage
  <2>4. Listed' = Listed /\ (Tied(Answer)' <=> Tied(Answer))
    <3>1. offset' \in Nat
      BY <2>2 DEF ListsTypes
    <3> QED
      BY <2>1, <2>2, <3>1, AnswerIs, AnswerWillBe
  <2>5. InStep => InStep'
    <3>1. PICK R : R = Precedence(row, FirstPage.order) /\ R = Precedence(row', FirstPage'.order)
      BY <2>1, <2>3
    <3> QED
      BY <2>1, <2>3, <2>4, <3>1 DEF InStep, Unseen, Repeated
  <2>6. (PastTheEnd => PastTheEnd') /\ (PagesShowAll => PagesShowAll')
    BY <2>1 DEF PastTheEnd, Unseen, PagesShowAll
  <2> QED
    BY <2>1, <2>2, <2>3, <2>4, <2>5, <2>6 DEF ListsInv
<1> QED
  BY <1>3, <1>4, <1>5, <1>6, <1>7 DEF ListsNext

\* Who reads a list to its end misses at most one of the rows that stayed where
\* they were for each that left meanwhile, and sees at most one twice for each
\* that came, the calculations apart, unless a lookup failed or two rows were at
\* the same place (LIMIT and OFFSET in queries/*.sql; tax_handler.go:109).
THEOREM PagesShow == ListsSpec => []PagesShowAll
<1>1. ListsSpec => []ListsInv
  BY ListsBegin, ListsStep, PTL DEF ListsSpec
<1>2. ListsInv => PagesShowAll
  BY DEF ListsInv, PagesShowAll
<1> QED
  BY <1>1, <1>2, PTL

-----------------------------------------------------------------------------
(* All of them side by side.                                               *)

\* To each of them the joint specification is its own.
LEMMA EachByItself == MCSpec => Spec /\ ListsSpec /\ EditsSpec /\ IdentitiesSpec
<1>1. MCInit => Init /\ ListsInit /\ EditsInit /\ IdentitiesInit
  BY DEF MCInit, NothingListed, NothingEdited
<1> DEFINE all == <<subject, vars, listVars, editVars, identityVars>>
<1>2. [MCNext]_all => /\ [Next]_vars /\ [ListsNext]_listVars
                      /\ [EditsNext]_editVars /\ [IdentitiesNext]_identityVars
  BY DEF MCNext
<1> QED
  BY <1>1, <1>2, PTL DEF MCSpec, Spec, ListsSpec, EditsSpec, IdentitiesSpec

\* What TLC checks on the run of these modules holds of its specification for
\* every value of the constants.
THEOREM WorkspacesHold ==
  MCSpec => [](/\ InviteAdmitsOnce /\ DeactivationHolds /\ AdmittedCanWork
               /\ PagesShowAll /\ UnaskedStays /\ FrozenInReview)
BY EachByItself, InvitesAdmitOnce, DeactivationsHold, AdmittedWork, PagesShow,
   UnaskedStay, IdentitiesFrozen, PTL
=============================================================================
