-------------------------- MODULE DeliveriesProofs --------------------------
(***************************************************************************)
(* Theorems about Chart, Documents and Taxes, which live on the same       *)
(* deliveries, for any number of callbacks, requests, transactions, tax    *)
(* types, profiles and jobs, and any number of repeats and cuts; about     *)
(* Journals, for any amount and any rate.                                  *)
(***************************************************************************)
EXTENDS MCDeliveries, SumTheorems

\* The subjects that TLC explores one or two at a time, all at once.
Together == DeliveriesInit /\ ChartInit /\ DocumentsInit /\ TaxesInit /\ JournalsInit
AllSteps == (Next /\ UNCHANGED journalVars) \/ Books
AtOnce == Together /\ [][AllSteps]_AllButClaims

Posted(t) == Event("posted", t)
Reversed(t) == Event("reversed", t)
Report(j) == Event("report", j)

-----------------------------------------------------------------------------
(* The callbacks.                                                          *)

\* What a callback is doing, by the event it was given.
IdleWork == [event : {Event("none", 0)}, step : {"idle"}, left : {{}}]
ChartWork == [event : {Created}, step : {"count", "insert"}, left : {{}}]
DocumentWork ==
  [event : Uploaded, step : {"read", "mark", "extract", "create", "save", "link"},
   left : SUBSET Transactions]
PostedWork ==
  [event : {Posted(t) : t \in Transactions}, step : {"profile", "calculate"}, left : SUBSET Types]
ReversedWork == [event : {Reversed(t) : t \in Transactions}, step : {"void"}, left : {{}}]
ReportWork == [event : {Report(j) : j \in Jobs}, step : {"mark", "generate"}, left : {{}}]
Work == IdleWork \cup ChartWork \cup DocumentWork \cup PostedWork \cup ReversedWork \cup ReportWork

\* An event at hand is one that was recorded.
DeliveriesInv ==
  /\ work \in [Workers -> Work]
  /\ \A w \in Workers : work[w] # Idle => work[w].event \in due \cup settled
  /\ repeats \in Nat /\ cuts \in Nat
  /\ transactions \in [Transactions -> Statuses]

ChartInv ==
  /\ creating \in [Creators -> {"idle", "checked", "related", "emit"}]
  /\ ChartFollows

\* A callback that got hold of the document.
Past(w) == \E step \in {"extract", "create", "save", "link"} : On(w, "uploaded", step)

DocumentInv ==
  /\ upload = "none" => extraction = "none"
  /\ extraction \in {"none", "PENDING"} => created = {} /\ linked = 0
  /\ \A v, w \in Workers : Past(v) /\ Past(w) => v = w
  /\ \A w \in Workers :
       /\ On(w, "uploaded", "extract") => extraction = "PROCESSING" /\ created = {} /\ linked = 0
       /\ On(w, "uploaded", "create") => extraction = "PROCESSING" /\ created = {} /\ linked = 0
       /\ On(w, "uploaded", "save") => extraction = "PROCESSING" /\ created = work[w].left /\ created # {}
       /\ On(w, "uploaded", "link") => extraction = "COMPLETED" /\ created = work[w].left /\ created # {}
  /\ created = {} \/ \E t \in Transactions : created = {t}
  /\ linked # 0 => created = {linked}
  /\ extraction = "COMPLETED" /\ cuts = 0 =>
       linked # 0 \/ \E w \in Workers : On(w, "uploaded", "link")
  /\ ExtractionGoesOn

TaxTypes ==
  /\ taxes \in [Transactions -> [Types -> {"none", "ACTIVE", "VOIDED"}]]
  /\ profile \subseteq Types /\ Defaults \subseteq profile
  /\ changes \in Nat

\* The events follow the transaction.
RecordedInv ==
  \A t \in Transactions :
    /\ transactions[t] \in {"none", "DRAFT"} => Posted(t) \notin due \cup settled
    /\ transactions[t] \in {"POSTED", "VOID"} => Posted(t) \in due \cup settled
    /\ transactions[t] # "VOID" => Reversed(t) \notin due \cup settled

\* A calculation in progress has everything before it or behind it.
CalculatingInv ==
  \A w \in Workers, t \in Transactions :
    work[w].event = Posted(t) /\ work[w].step = "calculate" =>
      /\ \A x \in Defaults : Has(t, x) \/ x \in work[w].left
      /\ changes = 0 /\ t \notin misread =>
           /\ work[w].left \subseteq profile
           /\ \A x \in profile : Has(t, x) \/ x \in work[w].left

\* A reversal that did not cross has LedgerPosted behind it, and a settled one
\* has left nothing ACTIVE.
ReversedInv ==
  \A t \in Transactions \ crossed :
    /\ Handled(Reversed(t)) \/ Reversed(t) \in settled =>
         /\ Posted(t) \in settled
         /\ repeats = 0 => Posted(t) \notin due /\ ~Handled(Posted(t))
    /\ Reversed(t) \in settled /\ (repeats = 0 \/ (changes = 0 /\ t \notin misread)) =>
         \A x \in Types : taxes[t][x] # "ACTIVE"

TaxInv == TaxTypes /\ RecordedInv /\ CalculatingInv /\ SettledIsTaxed /\ ReversedInv

ReportInv ==
  /\ job \in [Jobs -> {"none", "PENDING", "PROCESSING", "COMPLETED", "FAILED"}]
  /\ ReportsGoOn

AllInv == DeliveriesInv /\ ChartInv /\ DocumentInv /\ TaxInv /\ ReportInv

-----------------------------------------------------------------------------
(* What a callback does to the deliveries.                                 *)

\* Work is told apart by the kind of its event.
LEMMA KindOf ==
  ASSUME NEW k \in Work
  PROVE  /\ k.event.kind \in {"none", "workspace", "uploaded", "posted", "reversed", "report"}
         /\ k.event.kind = "none" => k = Idle
         /\ k.event.kind = "workspace" => k \in ChartWork
         /\ k.event.kind = "uploaded" => k \in DocumentWork
         /\ k.event.kind = "posted" => k \in PostedWork
         /\ k.event.kind = "reversed" => k \in ReversedWork
         /\ k.event.kind = "report" => k \in ReportWork
<1> USE DEF Event
<1>1. CASE k \in IdleWork
  BY <1>1 DEF IdleWork, Idle
<1>2. CASE k \in ChartWork
  BY <1>2 DEF ChartWork, Created
<1>3. CASE k \in DocumentWork
  BY <1>3 DEF DocumentWork, Uploaded
<1>4. CASE k \in PostedWork
  BY <1>4 DEF PostedWork, Posted
<1>5. CASE k \in ReversedWork
  BY <1>5 DEF ReversedWork, Reversed
<1>6. CASE k \in ReportWork
  BY <1>6 DEF ReportWork, Report
<1> QED
  BY <1>1, <1>2, <1>3, <1>4, <1>5, <1>6 DEF Work

LEMMA IdleIsWork == Idle \in Work /\ Idle.event.kind = "none" /\ Idle.step = "idle"
BY DEF Idle, Work, IdleWork, Event

\* One callback moves, and acknowledges its event or not.
LEMMA CallbackMoves ==
  ASSUME DeliveriesInv, NEW w \in Workers, NEW y \in Work,
         work' = [work EXCEPT ![w] = y],
         y = Idle \/ y.event \in due \cup settled,
         \/ UNCHANGED <<due, settled>>
         \/ due' = due \ {work[w].event} /\ settled' = settled \cup {work[w].event},
         repeats' \in Nat, cuts' \in Nat, transactions' \in [Transactions -> Statuses]
  PROVE  /\ DeliveriesInv'
         /\ work'[w] = y /\ \A v \in Workers \ {w} : work'[v] = work[v]
         /\ due \cup settled \subseteq due' \cup settled'
<1>1. /\ work' \in [Workers -> Work] /\ work'[w] = y
      /\ \A v \in Workers \ {w} : work'[v] = work[v]
  BY DEF DeliveriesInv
<1>2. \/ due' \cup settled' = due \cup settled
      \/ due' \cup settled' = due \cup settled \cup {work[w].event}
  OBVIOUS
<1>3. \A v \in Workers : work'[v] # Idle => work'[v].event \in due' \cup settled'
  BY <1>1, <1>2 DEF DeliveriesInv
<1> QED
  BY <1>1, <1>2, <1>3 DEF DeliveriesInv

\* What a step of callback w about an event of this kind leaves of the rest.
Effect(w, kind) ==
  /\ \A v \in Workers \ {w} : work'[v] = work[v]
  /\ work[w].event.kind \in {"none", kind} /\ work'[w].event.kind \in {"none", kind}
  /\ \/ UNCHANGED <<due, settled>>
     \/ due' = due \ {work[w].event} /\ settled' = settled \cup {work[w].event}
  /\ UNCHANGED <<repeats, cuts>>
  /\ DeliveriesInv'

\* Nothing happens about events of this kind.
Apart(kind) ==
  /\ \A e : e.kind = kind => (e \in due' <=> e \in due) /\ (e \in settled' <=> e \in settled)
  /\ \A v \in Workers :
       work'[v] = work[v] \/ (work[v].event.kind # kind /\ work'[v].event.kind # kind)
  /\ UNCHANGED <<repeats, cuts>>

LEMMA Elsewhere ==
  ASSUME NEW w \in Workers, NEW kind, Effect(w, kind), NEW other, other \notin {"none", kind}
  PROVE  Apart(other)
<1>1. work[w].event.kind # other /\ work'[w].event.kind # other
  BY DEF Effect
<1>2. \A e : e.kind = other => e # work[w].event
  BY <1>1
<1>3. \A e : e.kind = other => (e \in due' <=> e \in due) /\ (e \in settled' <=> e \in settled)
  BY <1>2 DEF Effect
<1>4. \A v \in Workers :
        work'[v] = work[v] \/ (work[v].event.kind # other /\ work'[v].event.kind # other)
  BY <1>1 DEF Effect
<1> QED
  BY <1>3, <1>4 DEF Apart, Effect

\* A callback goes on, is acknowledged or gives up.
LEMMA GoesOnWith ==
  ASSUME DeliveriesInv, NEW w \in Workers, NEW y \in Work, work[w] # Idle,
         work' = [work EXCEPT ![w] = y], y.event = work[w].event,
         UNCHANGED <<due, settled, repeats, cuts>>, transactions' \in [Transactions -> Statuses]
  PROVE  Effect(w, work[w].event.kind) /\ work'[w] = y
<1>1. y.event \in due \cup settled
  BY DEF DeliveriesInv
<1>2. repeats' \in Nat /\ cuts' \in Nat
  BY DEF DeliveriesInv
<1> QED
  BY <1>1, <1>2, CallbackMoves DEF Effect

LEMMA AcksWith ==
  ASSUME DeliveriesInv, NEW w \in Workers, Acks(w) \/ Naks(w), UNCHANGED <<repeats, cuts>>,
         transactions' \in [Transactions -> Statuses]
  PROVE  Effect(w, work[w].event.kind) /\ work'[w] = Idle
<1>1. repeats' \in Nat /\ cuts' \in Nat
  BY DEF DeliveriesInv
<1> QED
  BY <1>1, IdleIsWork, CallbackMoves DEF Effect, Acks, Naks

LEMMA TakesUp ==
  ASSUME DeliveriesInv, NEW w \in Workers, NEW e, NEW step, Take(w, e, step),
         [event |-> e, step |-> step, left |-> {}] \in Work,
         UNCHANGED <<due, settled, repeats, cuts, transactions>>
  PROVE  /\ Effect(w, e.kind) /\ e \in due /\ work[w] = Idle
         /\ work'[w] = [event |-> e, step |-> step, left |-> {}]
<1> PICK y : y = [event |-> e, step |-> step, left |-> {}]
  OBVIOUS
<1>1. y \in Work /\ y.event = e /\ e \in due /\ work[w] = Idle /\ work' = [work EXCEPT ![w] = y]
  BY DEF Take
<1>2. repeats' \in Nat /\ cuts' \in Nat /\ transactions' \in [Transactions -> Statuses]
  BY DEF DeliveriesInv
<1>3. DeliveriesInv' /\ work'[w] = y /\ \A v \in Workers \ {w} : work'[v] = work[v]
  BY <1>1, <1>2, CallbackMoves
<1> QED
  BY <1>1, <1>3, IdleIsWork DEF Effect

-----------------------------------------------------------------------------
(* The chart of accounts.                                                  *)

LEMMA ChartKept ==
  ASSUME ChartInv, UNCHANGED chartVars, Created \in due => Created \in due'
  PROVE  ChartInv'
BY DEF ChartInv, ChartFollows, chartVars

\* A request may end without the event only after it has counted as cut short.
LEMMA ChartRequestKeeps ==
  ASSUME ChartInv, ChartRequest
  PROVE  /\ ChartInv'
         /\ due' \in {due, due \cup {Created}}
         /\ UNCHANGED <<settled, work, repeats, cuts, transactions>>
<1> USE DEF ChartInv, ChartFollows, At
<1>1. ASSUME NEW c \in Creators, AskCreateWorkspace(c)
      PROVE  ChartInv' /\ UNCHANGED deliveryVars
  BY <1>1 DEF AskCreateWorkspace, deliveryVars
<1>2. ASSUME NEW c \in Creators, CreateRelation(c)
      PROVE  ChartInv' /\ UNCHANGED deliveryVars
  <2>1. creating'[c] = IF relation THEN "idle" ELSE "related"
    BY <1>2 DEF CreateRelation
  <2>2. \A d \in Creators \ {c} : creating'[d] = creating[d]
    BY <1>2 DEF CreateRelation
  <2>3. creating' \in [Creators -> {"idle", "checked", "related", "emit"}]
    BY <1>2 DEF CreateRelation
  <2>4. UNCHANGED <<template, own, cutShort, deliveryVars>> /\ creating[c] = "checked"
    BY <1>2 DEF CreateRelation
  <2>5. UNCHANGED due
    BY <2>4 DEF deliveryVars
  <2>6. ChartFollows'
    <3>1. CASE relation
      BY <3>1, <2>2, <2>4, <2>5
    <3>2. CASE ~relation
      BY <3>2, <2>1
    <3> QED
      BY <3>1, <3>2
  <2> QED
    BY <2>3, <2>4, <2>6
<1>3. ASSUME NEW c \in Creators, BootstrapOwnerRole(c)
      PROVE  ChartInv' /\ UNCHANGED deliveryVars
  BY <1>3 DEF BootstrapOwnerRole, deliveryVars
<1>4. ASSUME NEW c \in Creators, EmitCreated(c)
      PROVE  /\ ChartInv' /\ due' = due \cup {Created}
             /\ UNCHANGED <<settled, work, repeats, cuts, transactions>>
  BY <1>4 DEF EmitCreated
<1>5. ASSUME NEW c \in Creators, CutShort(c)
      PROVE  ChartInv' /\ UNCHANGED deliveryVars
  <2>1. \A d \in Creators \ {c} : creating'[d] = creating[d]
    BY <1>5 DEF CutShort
  <2>2. creating[c] \in {"related", "emit"} => cutShort'
    BY <1>5 DEF CutShort
  <2>3. /\ creating' \in [Creators -> {"idle", "checked", "related", "emit"}]
        /\ UNCHANGED <<relation, template, own, deliveryVars>> /\ (cutShort => cutShort')
    BY <1>5 DEF CutShort
  <2>4. UNCHANGED due
    BY <2>3 DEF deliveryVars
  <2> QED
    BY <2>1, <2>2, <2>3, <2>4
<1>6. ASSUME NEW code \in Codes, CreateAccount(code)
      PROVE  ChartInv' /\ UNCHANGED deliveryVars
  BY <1>6 DEF CreateAccount, deliveryVars
<1> QED
  BY <1>1, <1>2, <1>3, <1>4, <1>5, <1>6 DEF ChartRequest, deliveryVars

\* The event is settled only where there is an account.
LEMMA ChartStepKeeps ==
  ASSUME DeliveriesInv, ChartInv, NEW w \in Workers, ChartStep(w)
  PROVE  ChartInv' /\ Effect(w, "workspace") /\ UNCHANGED transactions
<1>0. transactions \in [Transactions -> Statuses] /\ work[w] \in Work
  BY DEF DeliveriesInv
<1>1. CASE HandleWorkspaceCreated(w)
  <2> PICK y : y = [event |-> Created, step |-> "count", left |-> {}]
    OBVIOUS
  <2>1. y \in Work /\ Created.kind = "workspace"
    BY DEF Work, ChartWork, Created, Event
  <2>2. /\ Take(w, Created, "count")
        /\ UNCHANGED <<due, settled, repeats, cuts, transactions, chartVars>>
    BY <1>1 DEF HandleWorkspaceCreated
  <2>3. Effect(w, "workspace")
    BY <2>1, <2>2, TakesUp
  <2> QED
    BY <2>2, <2>3, ChartKept
<1>2. CASE CountAccounts(w)
  <2>1. /\ work[w] \in ChartWork /\ work[w].event.kind = "workspace" /\ work[w] # Idle
        /\ UNCHANGED <<repeats, cuts, transactions, chartVars>>
    BY <1>0, <1>2, KindOf, IdleIsWork DEF CountAccounts, On
  <2>2. CASE template \/ own # {}
    <3>1. Acks(w)
      BY <1>2, <2>2 DEF CountAccounts
    <3>2. Effect(w, "workspace")
      BY <1>0, <2>1, <3>1, AcksWith
    <3> QED
      BY <2>1, <2>2, <3>2 DEF ChartInv, ChartFollows, chartVars
  <2>3. CASE ~(template \/ own # {})
    <3> PICK y : y = [work[w] EXCEPT !.step = "insert"]
      OBVIOUS
    <3>1. work' = [work EXCEPT ![w] = y] /\ UNCHANGED <<due, settled>>
      BY <1>2, <2>3 DEF CountAccounts, GoTo
    <3>2. y \in Work /\ y.event = work[w].event
      BY <2>1 DEF ChartWork, Work
    <3>3. Effect(w, "workspace")
      BY <1>0, <2>1, <3>1, <3>2, GoesOnWith
    <3> QED
      BY <2>1, <3>1, <3>3, ChartKept
  <2> QED
    BY <2>2, <2>3
<1>3. CASE SeedDefaultCOA(w)
  <2>1. /\ work[w].event.kind = "workspace"
        /\ UNCHANGED <<repeats, cuts, transactions, relation, ownerRole, own, creating, cutShort>>
    BY <1>3 DEF SeedDefaultCOA, On
  <2>2. Acks(w) \/ Naks(w)
    BY <1>3 DEF SeedDefaultCOA
  <2>3. Effect(w, "workspace")
    BY <1>0, <2>1, <2>2, AcksWith
  <2>4. template' \/ (UNCHANGED template /\ UNCHANGED due)
    BY <1>3 DEF SeedDefaultCOA, Naks
  <2> QED
    BY <2>1, <2>3, <2>4 DEF ChartInv, ChartFollows
<1> QED
  BY <1>1, <1>2, <1>3 DEF ChartStep

-----------------------------------------------------------------------------
(* Documents.                                                              *)

\* Nothing happens to the document; a callback that is cut off counts.
LEMMA DocumentKept ==
  ASSUME DocumentInv, UNCHANGED documentVars, \A e \in Uploaded : e \in due => e \in due',
         \/ /\ cuts' = cuts
            /\ \A v \in Workers : \/ work'[v] = work[v]
                                  \/ work[v].event.kind # "uploaded" /\ work'[v].event.kind # "uploaded"
         \/ cuts' # 0 /\ \A v \in Workers : work'[v] = work[v] \/ work'[v].event.kind # "uploaded"
  PROVE  DocumentInv'
<1>1. UNCHANGED <<upload, extraction, linked, confirming, created>>
  BY DEF documentVars
<1>2. \A v \in Workers : work'[v].event.kind = "uploaded" => work'[v] = work[v]
  OBVIOUS
<1>3. cuts' = 0 => cuts = 0 /\ \A v \in Workers : work[v].event.kind = "uploaded" => work'[v] = work[v]
  OBVIOUS
<1>4. \A v \in Workers : Past(v)' => Past(v)
  BY <1>2 DEF Past, On
<1>5. \A v, w \in Workers : Past(v)' /\ Past(w)' => v = w
  BY <1>4 DEF DocumentInv
<1>6. \A v \in Workers :
        /\ On(v, "uploaded", "extract")' => extraction' = "PROCESSING" /\ created' = {} /\ linked' = 0
        /\ On(v, "uploaded", "create")' => extraction' = "PROCESSING" /\ created' = {} /\ linked' = 0
        /\ On(v, "uploaded", "save")' =>
             extraction' = "PROCESSING" /\ created' = work'[v].left /\ created' # {}
        /\ On(v, "uploaded", "link")' =>
             extraction' = "COMPLETED" /\ created' = work'[v].left /\ created' # {}
  BY <1>1, <1>2 DEF DocumentInv, On
<1>7. extraction' = "COMPLETED" /\ cuts' = 0 =>
        linked' # 0 \/ \E v \in Workers : On(v, "uploaded", "link")'
  BY <1>1, <1>3 DEF DocumentInv, On
<1>8. ExtractionGoesOn'
  BY <1>1, <1>3 DEF DocumentInv, ExtractionGoesOn, On
<1> QED
  BY <1>1, <1>5, <1>6, <1>7, <1>8 DEF DocumentInv

LEMMA DocumentRequestKeeps ==
  ASSUME DocumentInv, DocumentRequest
  PROVE  /\ DocumentInv'
         /\ due' = due \/ \E e \in Uploaded : due' = due \cup {e}
         /\ UNCHANGED <<settled, work, repeats, cuts, transactions>>
<1>1. CASE RequestUpload
  <2>1. /\ upload = "none" /\ upload' = "PENDING" /\ extraction' = "PENDING"
        /\ UNCHANGED <<linked, confirming, created, due, settled, work, repeats, cuts, transactions>>
    BY <1>1 DEF RequestUpload, deliveryVars
  <2>2. extraction = "none" /\ created = {} /\ linked = 0
    BY <2>1 DEF DocumentInv
  <2>3. \A v \in Workers : ~Past(v)
    BY <2>2 DEF DocumentInv, Past
  <2> QED
    BY <2>1, <2>2, <2>3 DEF DocumentInv, Past, On, ExtractionGoesOn
<1>2. ASSUME NEW u \in Uploaders, AskConfirm(u)
      PROVE  DocumentInv' /\ UNCHANGED <<due, settled, work, repeats, cuts, transactions>>
  <2>1. UNCHANGED <<upload, extraction, linked, created, due, settled, work, repeats, cuts, transactions>>
    BY <1>2 DEF AskConfirm, deliveryVars
  <2> QED
    BY <2>1 DEF DocumentInv, Past, On, ExtractionGoesOn
<1>3. ASSUME NEW u \in Uploaders, ConfirmUpload(u)
      PROVE  /\ DocumentInv'
             /\ \E e \in Uploaded : due' = due \cup {e}
             /\ UNCHANGED <<settled, work, repeats, cuts, transactions>>
  <2>1. PICK e \in Uploaded : due' = due \cup {e}
    BY <1>3 DEF ConfirmUpload
  <2>2. /\ upload' = "UPLOADED"
        /\ UNCHANGED <<extraction, linked, created, settled, work, repeats, cuts, transactions>>
    BY <1>3 DEF ConfirmUpload
  <2> QED
    BY <2>1, <2>2 DEF DocumentInv, Past, On, ExtractionGoesOn
<1> QED
  BY <1>1, <1>2, <1>3 DEF DocumentRequest

\* A callback that has not got hold of the document goes on to another step
\* before that, or ends.
LEMMA NotYetPast ==
  ASSUME DocumentInv, UNCHANGED documentVars, NEW w \in Workers, ~Past(w), ~Past(w)',
         Effect(w, "uploaded"),
         due' # due => extraction # "PENDING"
  PROVE  DocumentInv'
<1>1. UNCHANGED <<upload, extraction, linked, confirming, created, cuts>>
  BY DEF documentVars, Effect
<1>2. \A v \in Workers \ {w} : work'[v] = work[v]
  BY DEF Effect
<1>3. \A v \in Workers : (Past(v)' <=> Past(v)) /\ (Past(v) => work'[v] = work[v])
  BY <1>2 DEF Past, On
<1>4. \A v \in Workers, step \in {"extract", "create", "save", "link"} :
        On(v, "uploaded", step)' <=> On(v, "uploaded", step)
  <2> SUFFICES ASSUME NEW v \in Workers, NEW step \in {"extract", "create", "save", "link"}
               PROVE  On(v, "uploaded", step)' <=> On(v, "uploaded", step)
    OBVIOUS
  <2>1. On(v, "uploaded", step) => Past(v)
    BY DEF Past
  <2>2. On(v, "uploaded", step)' => Past(v)'
    BY DEF Past, On
  <2> QED
    BY <1>3, <2>1, <2>2 DEF On
<1>5. \A v \in Workers :
        On(v, "uploaded", "save") \/ On(v, "uploaded", "link") => work'[v] = work[v]
  BY <1>3 DEF Past
<1>6. ExtractionGoesOn'
  BY <1>1, <1>4 DEF DocumentInv, ExtractionGoesOn
<1> QED
  BY <1>1, <1>3, <1>4, <1>5, <1>6 DEF DocumentInv

\* Whoever has got hold of the document is alone with it.
LEMMA AloneWith ==
  ASSUME DocumentInv, NEW w \in Workers, Past(w), NEW v \in Workers \ {w},
         NEW step \in {"extract", "create", "save", "link"}
  PROVE  ~On(v, "uploaded", step) /\ ~Past(v)
BY DEF DocumentInv, Past

\* A callback that has got hold of the document goes on with it, or is done
\* for good.
LEMMA PastKeeps ==
  ASSUME DocumentInv, NEW w \in Workers, Effect(w, "uploaded"),
         \A v \in Workers \ {w} : ~Past(v),
         UNCHANGED <<upload, confirming>>, upload # "none",
         extraction' \in {"PROCESSING", "COMPLETED", "FAILED"},
         extraction' = "PROCESSING" =>
           /\ linked' = 0
           /\ \/ On(w, "uploaded", "extract")' /\ created' = {}
              \/ On(w, "uploaded", "create")' /\ created' = {}
              \/ On(w, "uploaded", "save")' /\ created' = work'[w].left /\ created' # {},
         extraction' = "COMPLETED" =>
           \/ On(w, "uploaded", "link")' /\ created' = work'[w].left /\ created' # {}
           \/ work'[w] = Idle /\ linked' # 0,
         extraction' = "FAILED" => work'[w] = Idle,
         created' = {} \/ \E t \in Transactions : created' = {t},
         linked' # 0 => created' = {linked'}
  PROVE  DocumentInv'
<1>1. \A v \in Workers \ {w} : work'[v] = work[v] /\ ~Past(v)'
  BY DEF Effect, Past, On
<1>2. cuts' = cuts
  BY DEF Effect
<1>3. Idle.event.kind # "uploaded"
  BY IdleIsWork
<1>4. \A v \in Workers \ {w}, step \in {"extract", "create", "save", "link"} :
        ~On(v, "uploaded", step)'
  BY <1>1 DEF Past
<1>5. /\ On(w, "uploaded", "extract")' => extraction' = "PROCESSING" /\ created' = {} /\ linked' = 0
      /\ On(w, "uploaded", "create")' => extraction' = "PROCESSING" /\ created' = {} /\ linked' = 0
      /\ On(w, "uploaded", "save")' =>
           extraction' = "PROCESSING" /\ created' = work'[w].left /\ created' # {}
      /\ On(w, "uploaded", "link")' =>
           extraction' = "COMPLETED" /\ created' = work'[w].left /\ created' # {}
  <2>1. CASE extraction' = "PROCESSING"
    BY <2>1 DEF On
  <2>2. CASE extraction' = "COMPLETED"
    BY <1>3, <2>2 DEF On
  <2>3. CASE extraction' = "FAILED"
    BY <1>3, <2>3 DEF On
  <2> QED
    BY <2>1, <2>2, <2>3
<1>6. ExtractionGoesOn'
  BY DEF ExtractionGoesOn
<1> QED
  BY <1>1, <1>4, <1>5, <1>6 DEF DocumentInv

\* Three steps before a callback gets hold of the document.
LEMMA ReadKeeps ==
  ASSUME DeliveriesInv, DocumentInv, NEW w \in Workers,
         HandleDocumentUploaded(w) \/ CheckExtraction(w)
  PROVE  DocumentInv' /\ Effect(w, "uploaded") /\ UNCHANGED transactions
<1>0. transactions \in [Transactions -> Statuses] /\ work[w] \in Work
  BY DEF DeliveriesInv
<1>1. CASE HandleDocumentUploaded(w)
  <2>1. PICK e \in Uploaded : Take(w, e, "read")
    BY <1>1 DEF HandleDocumentUploaded
  <2>2. UNCHANGED <<due, settled, repeats, cuts, transactions, documentVars>>
    BY <1>1 DEF HandleDocumentUploaded
  <2> PICK y : y = [event |-> e, step |-> "read", left |-> {}]
    OBVIOUS
  <2>3. y \in Work /\ e.kind = "uploaded" /\ y.step = "read"
    BY DEF Work, DocumentWork, Uploaded, Event
  <2>4. Effect(w, "uploaded") /\ work'[w] = y /\ work[w] = Idle
    BY <2>1, <2>2, <2>3, TakesUp
  <2>5. ~Past(w) /\ ~Past(w)'
    BY <2>3, <2>4, IdleIsWork DEF Past, On
  <2> QED
    BY <2>2, <2>4, <2>5, NotYetPast
<1>2. CASE CheckExtraction(w)
  <2>1. /\ work[w].event.kind = "uploaded" /\ work[w].step = "read"
        /\ UNCHANGED <<repeats, cuts, transactions, documentVars>>
    BY <1>2 DEF CheckExtraction, On
  <2>2. work[w] # Idle /\ work[w] \in DocumentWork /\ ~Past(w)
    BY <1>0, <2>1, IdleIsWork, KindOf DEF Past, On
  <2>3. CASE extraction = "PENDING"
    <3> PICK y : y = [work[w] EXCEPT !.step = "mark"]
      OBVIOUS
    <3>1. work' = [work EXCEPT ![w] = y] /\ UNCHANGED <<due, settled>>
      BY <1>2, <2>3 DEF CheckExtraction, GoTo
    <3>2. y \in Work /\ y.event = work[w].event /\ y.step = "mark"
      BY <2>2 DEF DocumentWork, Work
    <3>3. Effect(w, "uploaded") /\ work'[w] = y
      BY <1>0, <2>1, <2>2, <3>1, <3>2, GoesOnWith
    <3>4. ~Past(w)'
      BY <3>2, <3>3 DEF Past, On
    <3> QED
      BY <2>1, <2>2, <3>1, <3>3, <3>4, NotYetPast
  <2>4. CASE extraction # "PENDING"
    <3>1. Acks(w)
      BY <1>2, <2>4 DEF CheckExtraction
    <3>2. Effect(w, "uploaded") /\ work'[w] = Idle
      BY <1>0, <2>1, <3>1, AcksWith
    <3>3. ~Past(w)'
      BY <3>2, IdleIsWork DEF Past, On
    <3> QED
      BY <2>1, <2>2, <2>4, <3>2, <3>3, NotYetPast
  <2> QED
    BY <2>3, <2>4
<1> QED
  BY <1>1, <1>2

LEMMA MarkProcessingKeeps ==
  ASSUME DeliveriesInv, DocumentInv, NEW w \in Workers, MarkExtractionProcessing(w)
  PROVE  DocumentInv' /\ Effect(w, "uploaded") /\ UNCHANGED transactions
<1>0. transactions \in [Transactions -> Statuses] /\ work[w] \in Work
  BY DEF DeliveriesInv
<1>1. /\ work[w].event.kind = "uploaded" /\ work[w].step = "mark"
      /\ UNCHANGED <<upload, linked, confirming, created, repeats, cuts, transactions>>
  BY DEF MarkExtractionProcessing, On
<1>2. work[w] # Idle /\ work[w] \in DocumentWork /\ ~Past(w)
  BY <1>0, <1>1, IdleIsWork, KindOf DEF Past, On
<1>3. CASE extraction = "PENDING"
  <2> PICK y : y = [work[w] EXCEPT !.step = "extract"]
    OBVIOUS
  <2>1. /\ work' = [work EXCEPT ![w] = y] /\ UNCHANGED <<due, settled>>
        /\ extraction' = "PROCESSING"
    BY <1>3 DEF MarkExtractionProcessing, GoTo
  <2>2. y \in Work /\ y.event = work[w].event /\ y.step = "extract"
    BY <1>2 DEF DocumentWork, Work
  <2>3. Effect(w, "uploaded") /\ work'[w] = y
    BY <1>0, <1>1, <1>2, <2>1, <2>2, GoesOnWith
  <2>4. On(w, "uploaded", "extract")'
    BY <1>1, <2>2, <2>3 DEF On
  <2>5. \A v \in Workers : ~Past(v)
    BY <1>3 DEF DocumentInv, Past
  <2>6. created = {} /\ linked = 0 /\ upload # "none"
    BY <1>3 DEF DocumentInv
  <2> QED
    BY <1>1, <2>1, <2>3, <2>4, <2>5, <2>6, PastKeeps
<1>4. CASE extraction # "PENDING"
  <2>1. Acks(w) /\ UNCHANGED documentVars
    BY <1>1, <1>4 DEF MarkExtractionProcessing, documentVars
  <2>2. Effect(w, "uploaded") /\ work'[w] = Idle
    BY <1>0, <1>1, <2>1, AcksWith
  <2>3. ~Past(w)'
    BY <2>2, IdleIsWork DEF Past, On
  <2> QED
    BY <1>1, <1>2, <1>4, <2>1, <2>2, <2>3, NotYetPast
<1> QED
  BY <1>3, <1>4

\* What is known of a callback that has got hold of the document.
LEMMA InHand ==
  ASSUME DeliveriesInv, DocumentInv, NEW w \in Workers, Past(w)
  PROVE  /\ work[w].event.kind = "uploaded" /\ work[w] \in DocumentWork /\ work[w] # Idle
         /\ \A v \in Workers \ {w} : ~Past(v)
         /\ upload # "none"
         /\ transactions \in [Transactions -> Statuses]
<1>1. work[w] \in Work /\ work[w].event.kind = "uploaded"
  BY DEF DeliveriesInv, Past, On
<1>2. extraction # "none"
  BY DEF DocumentInv, Past
<1> QED
  BY <1>1, <1>2, KindOf, IdleIsWork DEF DocumentInv, DeliveriesInv

LEMMA ExtractKeeps ==
  ASSUME DeliveriesInv, DocumentInv, NEW w \in Workers, Extract(w)
  PROVE  DocumentInv' /\ Effect(w, "uploaded") /\ UNCHANGED transactions
<1>1. /\ On(w, "uploaded", "extract") /\ Past(w)
      /\ UNCHANGED <<upload, linked, confirming, created, repeats, cuts, transactions>>
  BY DEF Extract, Past
<1>2. extraction = "PROCESSING" /\ created = {} /\ linked = 0
  BY <1>1 DEF DocumentInv
<1>3. CASE GoTo(w, "create") /\ UNCHANGED <<due, settled, extraction>>
  <2> PICK y : y = [work[w] EXCEPT !.step = "create"]
    OBVIOUS
  <2>1. y \in Work /\ y.event = work[w].event /\ y.step = "create"
    BY <1>1, InHand DEF DocumentWork, Work
  <2>2. Effect(w, "uploaded") /\ work'[w] = y
    BY <1>1, <1>3, <2>1, InHand, GoesOnWith DEF GoTo
  <2>3. On(w, "uploaded", "create")'
    BY <1>1, <2>1, <2>2, InHand DEF On
  <2> QED
    BY <1>1, <1>2, <1>3, <2>2, <2>3, InHand, PastKeeps
<1>4. CASE extraction' = "FAILED" /\ (Naks(w) \/ Acks(w))
  <2>1. Effect(w, "uploaded") /\ work'[w] = Idle
    BY <1>1, <1>4, InHand, AcksWith
  <2> QED
    BY <1>1, <1>2, <1>4, <2>1, InHand, PastKeeps
<1> QED
  BY <1>3, <1>4 DEF Extract

LEMMA CreateKeeps ==
  ASSUME DeliveriesInv, DocumentInv, NEW w \in Workers, CreateFromResult(w)
  PROVE  /\ DocumentInv' /\ Effect(w, "uploaded")
         /\ \A t \in Transactions : \/ transactions'[t] = transactions[t]
                                    \/ transactions[t] = "none" /\ transactions'[t] = "DRAFT"
<1>1. /\ On(w, "uploaded", "create") /\ Past(w)
      /\ UNCHANGED <<upload, linked, confirming, repeats, cuts>>
  BY DEF CreateFromResult, Past
<1>2. extraction = "PROCESSING" /\ created = {} /\ linked = 0
  BY <1>1 DEF DocumentInv
<1>3. ASSUME NEW t \in Transactions, CreateTransaction(t), created' = created \cup {t},
             work' = [work EXCEPT ![w].step = "save", ![w].left = {t}],
             UNCHANGED <<due, settled, extraction>>
      PROVE  /\ DocumentInv' /\ Effect(w, "uploaded")
             /\ \A s \in Transactions : \/ transactions'[s] = transactions[s]
                                        \/ transactions[s] = "none" /\ transactions'[s] = "DRAFT"
  <2> PICK y : y = [work[w] EXCEPT !.step = "save", !.left = {t}]
    OBVIOUS
  <2>1. y \in Work /\ y.event = work[w].event /\ y.step = "save" /\ y.left = {t}
    BY <1>1, InHand DEF DocumentWork, Work
  <2>2. work' = [work EXCEPT ![w] = y]
    BY <1>3
  <2>3. /\ transactions' \in [Transactions -> Statuses]
        /\ \A s \in Transactions : \/ transactions'[s] = transactions[s]
                                   \/ transactions[s] = "none" /\ transactions'[s] = "DRAFT"
    BY <1>1, <1>3, InHand DEF CreateTransaction, Statuses
  <2>4. Effect(w, "uploaded") /\ work'[w] = y
    BY <1>1, <1>3, <2>1, <2>2, <2>3, InHand, GoesOnWith
  <2>5. On(w, "uploaded", "save")' /\ created' = {t} /\ work'[w].left = {t}
    BY <1>1, <1>2, <1>3, <2>1, <2>4, InHand DEF On
  <2>6. DocumentInv'
    BY <1>1, <1>2, <1>3, <2>4, <2>5, InHand, PastKeeps
  <2> QED
    BY <2>3, <2>4, <2>6
<1>4. CASE extraction' = "FAILED" /\ Naks(w) /\ UNCHANGED <<created, transactions>>
  <2>1. Effect(w, "uploaded") /\ work'[w] = Idle
    BY <1>1, <1>4, InHand, AcksWith
  <2>2. DocumentInv'
    BY <1>1, <1>2, <1>4, <2>1, InHand, PastKeeps
  <2> QED
    BY <1>4, <2>1, <2>2
<1> QED
  BY <1>3, <1>4 DEF CreateFromResult

LEMMA SaveKeeps ==
  ASSUME DeliveriesInv, DocumentInv, NEW w \in Workers, SaveExtractionResult(w)
  PROVE  DocumentInv' /\ Effect(w, "uploaded") /\ UNCHANGED transactions
<1>1. /\ On(w, "uploaded", "save") /\ Past(w) /\ extraction' = "COMPLETED" /\ GoTo(w, "link")
      /\ UNCHANGED <<upload, linked, confirming, created, due, settled, repeats, cuts, transactions>>
  BY DEF SaveExtractionResult, Past
<1>2. created = work[w].left /\ created # {}
  BY <1>1 DEF DocumentInv
<1> PICK y : y = [work[w] EXCEPT !.step = "link"]
  OBVIOUS
<1>3. y \in Work /\ y.event = work[w].event /\ y.step = "link" /\ y.left = work[w].left
  BY <1>1, InHand DEF DocumentWork, Work
<1>4. Effect(w, "uploaded") /\ work'[w] = y
  BY <1>1, <1>3, InHand, GoesOnWith DEF GoTo
<1>5. On(w, "uploaded", "link")' /\ created' = work'[w].left /\ created' # {}
  BY <1>1, <1>2, <1>3, <1>4, InHand DEF On
<1>6. /\ created' = {} \/ \E t \in Transactions : created' = {t}
      /\ linked' # 0 => created' = {linked'}
  BY <1>1 DEF DocumentInv
<1> QED
  BY <1>1, <1>4, <1>5, <1>6, InHand, PastKeeps

LEMMA LinkKeeps ==
  ASSUME DeliveriesInv, DocumentInv, NEW w \in Workers, LinkDocumentTransaction(w)
  PROVE  DocumentInv' /\ Effect(w, "uploaded") /\ UNCHANGED transactions
<1>1. /\ On(w, "uploaded", "link") /\ Past(w) /\ linked' \in work[w].left /\ Acks(w)
      /\ UNCHANGED <<upload, extraction, confirming, created, repeats, cuts, transactions>>
  BY DEF LinkDocumentTransaction, Past
<1>2. extraction = "COMPLETED" /\ created = work[w].left /\ created # {}
  BY <1>1 DEF DocumentInv
<1>3. PICK t \in Transactions : created = {t}
  BY <1>2 DEF DocumentInv
<1>4. linked' = t /\ linked' # 0
  BY <1>1, <1>2, <1>3 DEF Transactions
<1>5. Effect(w, "uploaded") /\ work'[w] = Idle
  BY <1>1, InHand, AcksWith
<1> QED
  BY <1>1, <1>2, <1>3, <1>4, <1>5, InHand, PastKeeps

LEMMA DocumentStepKeeps ==
  ASSUME DeliveriesInv, DocumentInv, NEW w \in Workers, DocumentStep(w)
  PROVE  /\ DocumentInv' /\ Effect(w, "uploaded")
         /\ \A t \in Transactions : \/ transactions'[t] = transactions[t]
                                    \/ transactions[t] = "none" /\ transactions'[t] = "DRAFT"
BY ReadKeeps, MarkProcessingKeeps, ExtractKeeps, CreateKeeps, SaveKeeps, LinkKeeps DEF DocumentStep

-----------------------------------------------------------------------------
(* Report jobs.                                                            *)

LEMMA ReportKept ==
  ASSUME ReportInv, UNCHANGED job, \A j \in Jobs : Report(j) \in due => Report(j) \in due',
         \/ cuts' # 0
         \/ cuts' = cuts /\ \A w \in Workers : work[w].event.kind = "report" => work'[w] = work[w]
  PROVE  ReportInv'
<1> SUFFICES ASSUME NEW j \in Jobs
             PROVE  /\ job'[j] = "PENDING" => Report(j) \in due'
                    /\ job'[j] = "PROCESSING" /\ cuts' = 0 =>
                         \E w \in Workers : work'[w].event = Report(j) /\ work'[w].step = "generate"
  BY DEF ReportInv, ReportsGoOn, Report
<1>1. job'[j] = "PENDING" => Report(j) \in due'
  BY DEF ReportInv, ReportsGoOn, Report
<1>2. ASSUME job'[j] = "PROCESSING", cuts' = 0
      PROVE  \E w \in Workers : work'[w].event = Report(j) /\ work'[w].step = "generate"
  <2>1. PICK w \in Workers : work[w].event = Report(j) /\ work[w].step = "generate"
    BY <1>2 DEF ReportInv, ReportsGoOn, Report
  <2>2. work'[w] = work[w]
    BY <1>2, <2>1 DEF Report, Event
  <2> QED
    BY <2>1, <2>2
<1> QED
  BY <1>1, <1>2

\* A request for job j, or a step of a callback that has it in hand.
LEMMA JobMoves ==
  ASSUME ReportInv, NEW j \in Jobs, NEW next \in {"PENDING", "PROCESSING", "COMPLETED", "FAILED"},
         job' = [job EXCEPT ![j] = next],
         \A i \in Jobs \ {j} : Report(i) \in due => Report(i) \in due',
         next = "PENDING" => Report(j) \in due',
         \/ cuts' # 0
         \/ /\ cuts' = cuts
            /\ \A w \in Workers : \A i \in Jobs \ {j} : work[w].event = Report(i) => work'[w] = work[w]
            /\ next = "PROCESSING" =>
                 \E w \in Workers : work'[w].event = Report(j) /\ work'[w].step = "generate"
  PROVE  ReportInv'
<1>1. /\ job' \in [Jobs -> {"none", "PENDING", "PROCESSING", "COMPLETED", "FAILED"}]
      /\ job'[j] = next /\ \A i \in Jobs \ {j} : job'[i] = job[i]
  BY DEF ReportInv
<1>2. ASSUME NEW i \in Jobs
      PROVE  /\ job'[i] = "PENDING" => Report(i) \in due'
             /\ job'[i] = "PROCESSING" /\ cuts' = 0 =>
                  \E w \in Workers : work'[w].event = Report(i) /\ work'[w].step = "generate"
  <2>1. CASE i = j
    BY <1>1, <2>1
  <2>2. CASE i # j
    <3>1. job'[i] = job[i]
      BY <1>1, <2>2
    <3>2. job'[i] = "PENDING" => Report(i) \in due'
      BY <2>2, <3>1 DEF ReportInv, ReportsGoOn, Report
    <3>3. ASSUME job'[i] = "PROCESSING", cuts' = 0
          PROVE  \E w \in Workers : work'[w].event = Report(i) /\ work'[w].step = "generate"
      <4>1. PICK w \in Workers : work[w].event = Report(i) /\ work[w].step = "generate"
        BY <3>1, <3>3 DEF ReportInv, ReportsGoOn, Report
      <4>2. work'[w] = work[w]
        BY <2>2, <3>3, <4>1
      <4> QED
        BY <4>1, <4>2
    <3> QED
      BY <3>2, <3>3
  <2> QED
    BY <2>1, <2>2
<1> QED
  BY <1>1, <1>2 DEF ReportInv, ReportsGoOn, Report

\* Jobs are told apart by their events.
LEMMA ReportsApart ==
  ASSUME DeliveriesInv, NEW w \in Workers, Effect(w, "report"), NEW j \in Jobs,
         work[w].event = Report(j)
  PROVE  /\ \A i \in Jobs \ {j} : Report(i) \in due => Report(i) \in due'
         /\ \A v \in Workers : \A i \in Jobs \ {j} : work[v].event = Report(i) => work'[v] = work[v]
<1>1. \A i \in Jobs \ {j} : Report(i) # Report(j)
  BY DEF Report, Event
<1> QED
  BY <1>1 DEF Effect

LEMMA ReportStepKeeps ==
  ASSUME DeliveriesInv, ReportInv, NEW w \in Workers,
         HandleReportGeneration(w) \/ TakeReport(w) \/ GenerateReport(w)
  PROVE  /\ ReportInv' /\ Effect(w, "report")
         /\ UNCHANGED <<taxes, profile, changes, misread, crossed, transactions>>
<1>0. transactions \in [Transactions -> Statuses] /\ work[w] \in Work
  BY DEF DeliveriesInv
<1>1. CASE HandleReportGeneration(w)
  <2>1. PICK j \in Jobs : Take(w, Report(j), "mark")
    BY <1>1 DEF HandleReportGeneration, Report
  <2>2. /\ UNCHANGED <<due, settled, repeats, cuts, transactions>>
        /\ UNCHANGED <<job, taxes, profile, changes, misread, crossed>>
    BY <1>1 DEF HandleReportGeneration, taxVars
  <2>3. [event |-> Report(j), step |-> "mark", left |-> {}] \in Work /\ Report(j).kind = "report"
    BY DEF Work, ReportWork, Report, Event
  <2>4. Effect(w, "report") /\ work[w] = Idle
    BY <2>1, <2>2, <2>3, TakesUp
  <2>5. \A v \in Workers : work[v].event.kind = "report" => work'[v] = work[v]
    BY <2>4, IdleIsWork DEF Effect
  <2> QED
    BY <2>2, <2>4, <2>5, ReportKept
<1>2. ASSUME On(w, "report", "mark") \/ On(w, "report", "generate")
      PROVE  /\ work[w] \in ReportWork /\ work[w] # Idle /\ work[w].event.kind = "report"
             /\ work[w].event.n \in Jobs /\ work[w].event = Report(work[w].event.n)
  <2>1. work[w] \in ReportWork /\ work[w] # Idle /\ work[w].event.kind = "report"
    BY <1>0, <1>2, KindOf, IdleIsWork DEF On
  <2>2. PICK j \in Jobs : work[w].event = Report(j)
    BY <2>1 DEF ReportWork
  <2> QED
    BY <2>1, <2>2 DEF Report, Event
<1>3. CASE TakeReport(w)
  <2> PICK j : j = work[w].event.n
    OBVIOUS
  <2>1. /\ work[w] \in ReportWork /\ work[w] # Idle /\ work[w].event.kind = "report"
        /\ j \in Jobs /\ work[w].event = Report(j)
        /\ UNCHANGED <<repeats, cuts, transactions, taxes, profile, changes, misread, crossed>>
    BY <1>2, <1>3 DEF TakeReport
  <2>2. CASE job[j] = "PENDING"
    <3> PICK y : y = [work[w] EXCEPT !.step = "generate"]
      OBVIOUS
    <3>1. /\ job' = [job EXCEPT ![j] = "PROCESSING"] /\ work' = [work EXCEPT ![w] = y]
          /\ UNCHANGED <<due, settled>>
      BY <1>3, <2>2 DEF TakeReport, GoTo
    <3>2. y \in Work /\ y.event = work[w].event /\ y.step = "generate"
      BY <2>1 DEF ReportWork, Work
    <3>3. Effect(w, "report") /\ work'[w] = y
      BY <1>0, <2>1, <3>1, <3>2, GoesOnWith
    <3>4. work'[w].event = Report(j) /\ work'[w].step = "generate"
      BY <2>1, <3>2, <3>3
    <3>5. ReportInv'
      BY <2>1, <3>1, <3>3, <3>4, ReportsApart, JobMoves
    <3> QED
      BY <2>1, <3>3, <3>5
  <2>3. CASE job[j] # "PENDING"
    <3>1. Acks(w) /\ UNCHANGED job
      BY <1>3, <2>3 DEF TakeReport
    <3>2. Effect(w, "report") /\ work'[w] = Idle
      BY <1>0, <2>1, <3>1, AcksWith
    <3>3. \A i \in Jobs : job[i] = "PENDING" => Report(i) \in due'
      BY <2>1, <2>3, <3>2, ReportsApart DEF ReportInv, ReportsGoOn, Report
    <3>4. ASSUME NEW i \in Jobs, job[i] = "PROCESSING", cuts' = 0
          PROVE  \E v \in Workers : work'[v].event = Report(i) /\ work'[v].step = "generate"
      <4>1. PICK v \in Workers : work[v].event = Report(i) /\ work[v].step = "generate"
        BY <2>1, <3>4 DEF ReportInv, ReportsGoOn, Report
      <4>2. v # w
        BY <1>3, <4>1 DEF TakeReport, On
      <4> QED
        BY <3>2, <4>1, <4>2 DEF Effect
    <3>5. ReportInv'
      BY <3>1, <3>3, <3>4 DEF ReportInv, ReportsGoOn, Report
    <3> QED
      BY <2>1, <3>2, <3>5
  <2> QED
    BY <2>2, <2>3
<1>4. CASE GenerateReport(w)
  <2> PICK j : j = work[w].event.n
    OBVIOUS
  <2>1. /\ work[w].event.kind = "report"
        /\ j \in Jobs /\ work[w].event = Report(j)
        /\ UNCHANGED <<repeats, cuts, transactions, taxes, profile, changes, misread, crossed>>
    BY <1>2, <1>4 DEF GenerateReport
  <2>2. PICK next \in {"COMPLETED", "FAILED"} : job' = [job EXCEPT ![j] = next]
    BY <1>4 DEF GenerateReport
  <2>3. Acks(w) \/ Naks(w)
    BY <1>4 DEF GenerateReport
  <2>4. Effect(w, "report")
    BY <1>0, <2>1, <2>3, AcksWith
  <2>5. /\ \A i \in Jobs \ {j} : Report(i) \in due => Report(i) \in due'
        /\ \A v \in Workers : \A i \in Jobs \ {j} : work[v].event = Report(i) => work'[v] = work[v]
    BY <2>1, <2>4, ReportsApart
  <2>6. ReportInv'
    BY <2>1, <2>2, <2>5, JobMoves
  <2> QED
    BY <2>1, <2>4, <2>6
<1> QED
  BY <1>1, <1>3, <1>4

LEMMA RequestReportKeeps ==
  ASSUME ReportInv, NEW j \in Jobs, RequestReport(j)
  PROVE  /\ ReportInv' /\ due' = due \cup {Report(j)}
         /\ UNCHANGED <<taxes, profile, changes, misread, crossed, settled, work, repeats, cuts, transactions>>
<1>1. /\ job' = [job EXCEPT ![j] = "PENDING"] /\ due' = due \cup {Report(j)}
      /\ UNCHANGED <<taxes, profile, changes, misread, crossed, settled, work, repeats, cuts, transactions>>
  BY DEF RequestReport, Report
<1>2. ReportInv'
  BY <1>1, JobMoves
<1> QED
  BY <1>1, <1>2

-----------------------------------------------------------------------------
(* Taxes.                                                                  *)

\* The event of a transaction tells its kind and its number.
LEMMA EventsApart ==
  ASSUME NEW t, NEW s
  PROVE  /\ Posted(t) # Reversed(s)
         /\ Posted(t) = Posted(s) => t = s
         /\ Reversed(t) = Reversed(s) => t = s
         /\ Posted(t).kind = "posted" /\ Posted(t).n = t
         /\ Reversed(t).kind = "reversed" /\ Reversed(t).n = t
<1>1. /\ Posted(t).kind = "posted" /\ Posted(t).n = t /\ Posted(s).n = s
      /\ Reversed(t).kind = "reversed" /\ Reversed(t).n = t
      /\ Reversed(s).kind = "reversed" /\ Reversed(s).n = s
  BY DEF Posted, Reversed, Event
<1>2. Posted(t) # Reversed(s)
  BY <1>1
<1> QED
  BY <1>1, <1>2

\* Nothing happens that taxes follow: the events of the ledger stay where they
\* are, and a callback about one goes on at most to end.
LEMMA TaxKept ==
  ASSUME TaxInv, UNCHANGED <<taxes, profile, changes, misread, crossed, repeats>>,
         \A t \in Transactions : \/ transactions'[t] = transactions[t]
                                 \/ transactions[t] = "none" /\ transactions'[t] = "DRAFT",
         \A t \in Transactions :
           /\ (Posted(t) \in due' <=> Posted(t) \in due)
           /\ (Posted(t) \in settled' <=> Posted(t) \in settled)
           /\ (Reversed(t) \in due' <=> Reversed(t) \in due)
           /\ (Reversed(t) \in settled' <=> Reversed(t) \in settled),
         \A w \in Workers : \/ work'[w] = work[w]
                            \/ work'[w].event.kind \notin {"posted", "reversed"}
  PROVE  TaxInv'
<1>1. \A w \in Workers, t \in Transactions :
        /\ work'[w].event = Posted(t) => work'[w] = work[w]
        /\ work'[w].event = Reversed(t) => work'[w] = work[w]
  <2> SUFFICES ASSUME NEW w \in Workers, NEW t \in Transactions,
                      work'[w].event = Posted(t) \/ work'[w].event = Reversed(t)
               PROVE  work'[w] = work[w]
    OBVIOUS
  <2> QED
    BY EventsApart
<1>2. \A t \in Transactions :
        /\ Handled(Posted(t))' => Handled(Posted(t))
        /\ Handled(Reversed(t))' => Handled(Reversed(t))
  BY <1>1 DEF Handled, Posted, Reversed, Event
<1>3. TaxTypes'
  BY DEF TaxInv, TaxTypes
<1>4. RecordedInv'
  BY DEF TaxInv, RecordedInv, Posted, Reversed
<1>5. CalculatingInv'
  BY <1>1 DEF TaxInv, CalculatingInv, Has, Posted
<1>6. SettledIsTaxed'
  BY DEF TaxInv, SettledIsTaxed, Has, Posted
<1>7. ReversedInv'
  <2> SUFFICES ASSUME NEW t \in Transactions \ crossed
               PROVE  /\ Handled(Reversed(t))' \/ Reversed(t) \in settled' =>
                           /\ Posted(t) \in settled'
                           /\ repeats' = 0 => Posted(t) \notin due' /\ ~Handled(Posted(t))'
                      /\ Reversed(t) \in settled' /\ (repeats' = 0 \/ (changes' = 0 /\ t \notin misread')) =>
                           \A x \in Types : taxes'[t][x] # "ACTIVE"
    BY DEF ReversedInv, Posted, Reversed
  <2> QED
    BY <1>2 DEF TaxInv, ReversedInv
<1> QED
  BY <1>3, <1>4, <1>5, <1>6, <1>7 DEF TaxInv

LEMMA UpdateProfileKeeps ==
  ASSUME TaxInv, UpdateProfile
  PROVE  TaxInv' /\ UNCHANGED <<job, due, settled, work, repeats, cuts, transactions>>
<1>1. /\ profile' \in Profiles /\ changes' = changes + 1
      /\ UNCHANGED <<taxes, job, misread, crossed, due, settled, work, repeats, cuts, transactions>>
  BY DEF UpdateProfile, deliveryVars
<1>2. profile' \subseteq Types /\ Defaults \subseteq profile'
  BY <1>1, TaxesAssumption DEF TaxesAssumption
<1>3. changes' \in Nat /\ changes' # 0
  BY <1>1 DEF TaxInv, TaxTypes
<1>4. TaxTypes' /\ RecordedInv'
  BY <1>1, <1>2, <1>3 DEF TaxInv, TaxTypes, RecordedInv, Posted, Reversed
<1>5. CalculatingInv' /\ SettledIsTaxed'
  BY <1>1, <1>3 DEF TaxInv, CalculatingInv, SettledIsTaxed, Has, Posted
<1>6. ReversedInv'
  BY <1>1, <1>3 DEF TaxInv, ReversedInv, Handled, Posted, Reversed
<1> QED
  BY <1>1, <1>4, <1>5, <1>6 DEF TaxInv

LEMMA HandledIsRecorded ==
  ASSUME DeliveriesInv, NEW t
  PROVE  /\ Handled(Posted(t)) => Posted(t) \in due \cup settled
         /\ Handled(Reversed(t)) => Reversed(t) \in due \cup settled
<1>1. Posted(t) # Idle.event /\ Reversed(t) # Idle.event
  BY EventsApart, IdleIsWork
<1> QED
  BY <1>1 DEF DeliveriesInv, Handled

\* The ledger posts, a user voids, the broker repeats.
LEMMA LedgerPostsKeeps ==
  ASSUME DeliveriesInv, TaxInv, NEW t \in Transactions, LedgerPosts(t), UNCHANGED taxVars
  PROVE  TaxInv'
<1>1. /\ transactions[t] = "DRAFT" /\ transactions' = [transactions EXCEPT ![t] = "POSTED"]
      /\ due' = due \cup {Posted(t)} /\ UNCHANGED <<settled, work, repeats, cuts>>
      /\ UNCHANGED <<taxes, profile, changes, misread, crossed>>
  BY DEF LedgerPosts, taxVars, Posted
<1>2. transactions'[t] = "POSTED" /\ \A s \in Transactions \ {t} : transactions'[s] = transactions[s]
  BY <1>1 DEF DeliveriesInv
<1>3. /\ Reversed(t) \notin due \cup settled /\ ~Handled(Reversed(t))
      /\ \A s \in Transactions : Reversed(s) \in due' <=> Reversed(s) \in due
      /\ \A s \in Transactions \ {t} : Posted(s) \in due' <=> Posted(s) \in due
  BY <1>1, EventsApart, HandledIsRecorded DEF TaxInv, RecordedInv
<1>4. RecordedInv'
  <2> SUFFICES ASSUME NEW s \in Transactions
               PROVE  /\ transactions'[s] \in {"none", "DRAFT"} => Posted(s) \notin due' \cup settled'
                      /\ transactions'[s] \in {"POSTED", "VOID"} => Posted(s) \in due' \cup settled'
                      /\ transactions'[s] # "VOID" => Reversed(s) \notin due' \cup settled'
    BY DEF RecordedInv, Posted, Reversed
  <2>1. CASE s = t
    BY <1>1, <1>2, <1>3, <2>1
  <2>2. CASE s # t
    BY <1>1, <1>2, <1>3, <2>2 DEF TaxInv, RecordedInv
  <2> QED
    BY <2>1, <2>2
<1>5. TaxTypes' /\ CalculatingInv' /\ SettledIsTaxed'
  BY <1>1 DEF TaxInv, TaxTypes, CalculatingInv, SettledIsTaxed, Has, Posted
<1>6. ReversedInv'
  <2> SUFFICES ASSUME NEW s \in Transactions \ crossed
               PROVE  /\ Handled(Reversed(s)) \/ Reversed(s) \in settled =>
                           /\ Posted(s) \in settled
                           /\ repeats = 0 => Posted(s) \notin due' /\ ~Handled(Posted(s))
                      /\ Reversed(s) \in settled /\ (repeats = 0 \/ (changes = 0 /\ s \notin misread)) =>
                           \A x \in Types : taxes[s][x] # "ACTIVE"
    BY <1>1 DEF ReversedInv, Handled, Posted, Reversed
  <2>1. CASE s = t
    BY <1>3, <2>1
  <2>2. CASE s # t
    BY <1>3, <2>2 DEF TaxInv, ReversedInv
  <2> QED
    BY <2>1, <2>2
<1> QED
  BY <1>4, <1>5, <1>6 DEF TaxInv

LEMMA VoidKeeps ==
  ASSUME DeliveriesInv, TaxInv, NEW t \in Transactions, Void(t), UNCHANGED taxVars
  PROVE  TaxInv'
<1>1. /\ transactions[t] = "POSTED" /\ transactions' = [transactions EXCEPT ![t] = "VOID"]
      /\ due' = due \cup {Reversed(t)} /\ UNCHANGED <<settled, work, repeats, cuts>>
      /\ UNCHANGED <<taxes, profile, changes, misread, crossed>>
  BY DEF Void, taxVars, Reversed
<1>2. transactions'[t] = "VOID" /\ \A s \in Transactions \ {t} : transactions'[s] = transactions[s]
  BY <1>1 DEF DeliveriesInv
<1>3. /\ \A s \in Transactions : Posted(s) \in due' <=> Posted(s) \in due
      /\ \A s \in Transactions \ {t} : Reversed(s) \in due' <=> Reversed(s) \in due
  BY <1>1, EventsApart
<1>4. RecordedInv'
  <2> SUFFICES ASSUME NEW s \in Transactions
               PROVE  /\ transactions'[s] \in {"none", "DRAFT"} => Posted(s) \notin due' \cup settled'
                      /\ transactions'[s] \in {"POSTED", "VOID"} => Posted(s) \in due' \cup settled'
                      /\ transactions'[s] # "VOID" => Reversed(s) \notin due' \cup settled'
    BY DEF RecordedInv, Posted, Reversed
  <2>1. CASE s = t
    BY <1>1, <1>2, <1>3, <2>1 DEF TaxInv, RecordedInv
  <2>2. CASE s # t
    BY <1>1, <1>2, <1>3, <2>2 DEF TaxInv, RecordedInv
  <2> QED
    BY <2>1, <2>2
<1>5. TaxTypes' /\ CalculatingInv' /\ SettledIsTaxed'
  BY <1>1 DEF TaxInv, TaxTypes, CalculatingInv, SettledIsTaxed, Has, Posted
<1>6. ReversedInv'
  <2> SUFFICES ASSUME NEW s \in Transactions \ crossed
               PROVE  /\ Handled(Reversed(s)) \/ Reversed(s) \in settled =>
                           /\ Posted(s) \in settled
                           /\ repeats = 0 => Posted(s) \notin due' /\ ~Handled(Posted(s))
                      /\ Reversed(s) \in settled /\ (repeats = 0 \/ (changes = 0 /\ s \notin misread)) =>
                           \A x \in Types : taxes[s][x] # "ACTIVE"
    BY <1>1 DEF ReversedInv, Handled, Posted, Reversed
  <2> QED
    BY <1>3 DEF TaxInv, ReversedInv
<1> QED
  BY <1>4, <1>5, <1>6 DEF TaxInv

LEMMA RepeatKeeps ==
  ASSUME DeliveriesInv, TaxInv, NEW e \in settled, Repeat(e), UNCHANGED taxVars
  PROVE  TaxInv'
<1>1. /\ due' = due \cup {e} /\ repeats' = repeats + 1 /\ UNCHANGED <<settled, work, cuts, transactions>>
      /\ UNCHANGED <<taxes, profile, changes, misread, crossed>>
  BY DEF Repeat, taxVars
<1>2. due' \cup settled' = due \cup settled /\ repeats' # 0
  BY <1>1 DEF DeliveriesInv
<1>3. TaxTypes' /\ RecordedInv' /\ CalculatingInv' /\ SettledIsTaxed'
  BY <1>1, <1>2 DEF TaxInv, TaxTypes, RecordedInv, CalculatingInv, SettledIsTaxed, Has, Posted, Reversed
<1>4. ReversedInv'
  BY <1>1, <1>2 DEF TaxInv, ReversedInv, Handled, Posted, Reversed
<1> QED
  BY <1>3, <1>4 DEF TaxInv

\* What callbacks about the ledger have in hand.
LEMMA TaxWorkInHand ==
  ASSUME DeliveriesInv, NEW w \in Workers, NEW step
  PROVE  /\ On(w, "posted", step) =>
              \E t \in Transactions : /\ work[w].event = Posted(t) /\ t = work[w].event.n
                                      /\ work[w] \in PostedWork
         /\ On(w, "reversed", step) =>
              \E t \in Transactions : work[w].event = Reversed(t) /\ t = work[w].event.n
         /\ On(w, "posted", step) \/ On(w, "reversed", step) =>
              work[w] # Idle /\ work[w].event \in due \cup settled
<1>1. work[w] \in Work
  BY DEF DeliveriesInv
<1>2. ASSUME On(w, "posted", step)
      PROVE  /\ work[w] # Idle
             /\ \E t \in Transactions : /\ work[w].event = Posted(t) /\ t = work[w].event.n
                                        /\ work[w] \in PostedWork
  <2>1. work[w] \in PostedWork /\ work[w] # Idle
    BY <1>1, <1>2, KindOf, IdleIsWork DEF On
  <2>2. PICK t \in Transactions : work[w].event = Posted(t)
    BY <2>1 DEF PostedWork
  <2>3. t = work[w].event.n
    BY <2>2, EventsApart
  <2> QED
    BY <2>1, <2>2, <2>3
<1>3. ASSUME On(w, "reversed", step)
      PROVE  /\ work[w] # Idle
             /\ \E t \in Transactions : work[w].event = Reversed(t) /\ t = work[w].event.n
  <2>1. work[w] \in ReversedWork /\ work[w] # Idle
    BY <1>1, <1>3, KindOf, IdleIsWork DEF On
  <2>2. PICK t \in Transactions : work[w].event = Reversed(t)
    BY <2>1 DEF ReversedWork
  <2>3. t = work[w].event.n
    BY <2>2, EventsApart
  <2> QED
    BY <2>1, <2>2, <2>3
<1> QED
  BY <1>2, <1>3 DEF DeliveriesInv

\* Acknowledging an event that was recorded records nothing and forgets nothing.
LEMMA RecordedKept ==
  ASSUME RecordedInv, NEW w \in Workers, Effect(w, "posted") \/ Effect(w, "reversed"),
         UNCHANGED transactions,
         UNCHANGED <<due, settled>> \/ work[w].event \in due \cup settled
  PROVE  RecordedInv'
<1>1. due' \cup settled' = due \cup settled
  BY DEF Effect
<1> QED
  BY <1>1 DEF RecordedInv, Posted, Reversed

LEMMA HandledKept ==
  ASSUME NEW w \in Workers, \A v \in Workers \ {w} : work'[v] = work[v],
         work'[w].event = work[w].event \/ work'[w] = Idle
  PROVE  \A t : /\ Handled(Posted(t))' => Handled(Posted(t))
                /\ Handled(Reversed(t))' => Handled(Reversed(t))
<1> SUFFICES ASSUME NEW t
             PROVE  /\ Handled(Posted(t))' => Handled(Posted(t))
                    /\ Handled(Reversed(t))' => Handled(Reversed(t))
  OBVIOUS
<1>1. Posted(t) # Idle.event /\ Reversed(t) # Idle.event
  BY EventsApart, IdleIsWork
<1>2. ASSUME NEW v \in Workers, work'[v].event = Posted(t) \/ work'[v].event = Reversed(t)
      PROVE  work'[v].event = work[v].event
  BY <1>1, <1>2
<1> QED
  BY <1>2 DEF Handled, Posted, Reversed

\* The other calculations in progress are not disturbed.
LEMMA CalculatingKept ==
  ASSUME TaxTypes, CalculatingInv, NEW w \in Workers,
         \A v \in Workers \ {w} : work'[v] = work[v],
         UNCHANGED <<profile, changes>>, misread \subseteq misread',
         \A t \in Transactions, x \in Types : taxes[t][x] # "none" => taxes'[t][x] # "none",
         \A t \in Transactions :
           work'[w].event = Posted(t) /\ work'[w].step = "calculate" =>
             /\ \A x \in Defaults : taxes'[t][x] # "none" \/ x \in work'[w].left
             /\ changes = 0 /\ t \notin misread' =>
                  /\ work'[w].left \subseteq profile
                  /\ \A x \in profile : taxes'[t][x] # "none" \/ x \in work'[w].left
  PROVE  CalculatingInv'
<1>1. Defaults \subseteq Types /\ profile \subseteq Types
  BY DEF TaxTypes
<1> SUFFICES ASSUME NEW v \in Workers, NEW t \in Transactions,
                    work'[v].event = Posted(t), work'[v].step = "calculate"
             PROVE  /\ \A x \in Defaults : taxes'[t][x] # "none" \/ x \in work'[v].left
                    /\ changes = 0 /\ t \notin misread' =>
                         /\ work'[v].left \subseteq profile
                         /\ \A x \in profile : taxes'[t][x] # "none" \/ x \in work'[v].left
  BY DEF CalculatingInv, Has, Posted
<1>2. CASE v = w
  BY <1>2
<1>3. CASE v # w
  <2>1. work'[v] = work[v]
    BY <1>3
  <2>2. /\ \A x \in Defaults : taxes[t][x] # "none" \/ x \in work[v].left
        /\ changes = 0 /\ t \notin misread =>
             /\ work[v].left \subseteq profile
             /\ \A x \in profile : taxes[t][x] # "none" \/ x \in work[v].left
    BY <2>1 DEF CalculatingInv, Has
  <2> QED
    BY <1>1, <2>1, <2>2
<1> QED
  BY <1>2, <1>3

LEMMA SettledKept ==
  ASSUME TaxTypes, SettledIsTaxed, UNCHANGED <<profile, changes>>, misread \subseteq misread',
         \A t \in Transactions, x \in Types : taxes[t][x] # "none" => taxes'[t][x] # "none",
         \A t \in Transactions :
           Posted(t) \in settled' /\ Posted(t) \notin settled =>
             /\ \A x \in Defaults : taxes'[t][x] # "none"
             /\ changes = 0 /\ t \notin misread' => \A x \in profile : taxes'[t][x] # "none"
  PROVE  SettledIsTaxed'
<1>1. Defaults \subseteq Types /\ profile \subseteq Types
  BY DEF TaxTypes
<1> SUFFICES ASSUME NEW t \in Transactions, Posted(t) \in settled'
             PROVE  /\ \A x \in Defaults : taxes'[t][x] # "none"
                    /\ changes = 0 /\ t \notin misread' => \A x \in profile : taxes'[t][x] # "none"
  BY DEF SettledIsTaxed, Has, Posted
<1>2. CASE Posted(t) \in settled
  <2>1. /\ \A x \in Defaults : taxes[t][x] # "none"
        /\ changes = 0 /\ t \notin misread => \A x \in profile : taxes[t][x] # "none"
    BY <1>2 DEF SettledIsTaxed, Has, Posted
  <2> QED
    BY <1>1, <2>1
<1>3. CASE Posted(t) \notin settled
  BY <1>3
<1> QED
  BY <1>2, <1>3

\* A reversal that is taken up, and every settled one, stays what it was, where
\* nothing makes a tax ACTIVE again.
LEMMA ReversedKept ==
  ASSUME ReversedInv, UNCHANGED <<repeats, changes>>, misread \subseteq misread',
         crossed \subseteq crossed',
         NEW w \in Workers, Effect(w, "posted") \/ Effect(w, "reversed"),
         \A t \in Transactions \ crossed' :
           /\ Handled(Reversed(t))' \/ Reversed(t) \in settled' =>
                \/ Handled(Reversed(t)) \/ Reversed(t) \in settled
                \/ Posted(t) \in settled /\ Posted(t) \notin due /\ ~Handled(Posted(t))
           /\ Handled(Posted(t))' =>
                \/ Handled(Posted(t))
                \/ Posted(t) \in due
           /\ Reversed(t) \in settled' => \/ Reversed(t) \in settled
                                          \/ \A x \in Types : taxes'[t][x] # "ACTIVE"
           /\ Reversed(t) \in settled /\ (repeats = 0 \/ (changes = 0 /\ t \notin misread)) =>
                \A x \in Types : taxes'[t][x] = "ACTIVE" => taxes[t][x] = "ACTIVE"
  PROVE  ReversedInv'
<1>1. due' \subseteq due /\ settled \subseteq settled'
  BY DEF Effect
<1> SUFFICES ASSUME NEW t \in Transactions \ crossed'
             PROVE  /\ Handled(Reversed(t))' \/ Reversed(t) \in settled' =>
                         /\ Posted(t) \in settled'
                         /\ repeats = 0 => Posted(t) \notin due' /\ ~Handled(Posted(t))'
                    /\ Reversed(t) \in settled' /\ (repeats = 0 \/ (changes = 0 /\ t \notin misread')) =>
                         \A x \in Types : taxes'[t][x] # "ACTIVE"
  BY DEF ReversedInv, Posted, Reversed
<1>2. t \in Transactions \ crossed
  OBVIOUS
<1>3. ASSUME Handled(Reversed(t))' \/ Reversed(t) \in settled'
      PROVE  /\ Posted(t) \in settled'
             /\ repeats = 0 => Posted(t) \notin due' /\ ~Handled(Posted(t))'
  <2>1. /\ Posted(t) \in settled
        /\ repeats = 0 => Posted(t) \notin due /\ ~Handled(Posted(t))
    BY <1>2, <1>3 DEF ReversedInv
  <2> QED
    BY <1>1, <2>1
<1>4. ASSUME Reversed(t) \in settled', repeats = 0 \/ (changes = 0 /\ t \notin misread')
      PROVE  \A x \in Types : taxes'[t][x] # "ACTIVE"
  <2>1. CASE Reversed(t) \in settled
    <3>1. repeats = 0 \/ (changes = 0 /\ t \notin misread)
      BY <1>4
    <3>2. \A x \in Types : taxes[t][x] # "ACTIVE"
      BY <1>2, <2>1, <3>1 DEF ReversedInv
    <3> QED
      BY <2>1, <3>1, <3>2
  <2>2. CASE Reversed(t) \notin settled
    BY <1>4, <2>2
  <2> QED
    BY <2>1, <2>2
<1> QED
  BY <1>3, <1>4

LEMMA TakePostedKeeps ==
  ASSUME DeliveriesInv, TaxInv, NEW w \in Workers, HandleLedgerPosted(w)
  PROVE  TaxInv' /\ Effect(w, "posted") /\ UNCHANGED <<job, transactions>>
<1>1. PICK t \in Transactions : Take(w, Posted(t), "profile")
  BY DEF HandleLedgerPosted, Posted
<1>2. /\ UNCHANGED <<due, settled, repeats, cuts, transactions>>
      /\ UNCHANGED <<taxes, profile, changes, job, misread, crossed>>
  BY DEF HandleLedgerPosted, taxVars
<1> PICK y : y = [event |-> Posted(t), step |-> "profile", left |-> {}]
  OBVIOUS
<1>3. y \in Work /\ y.event = Posted(t) /\ y.step = "profile" /\ Posted(t).kind = "posted"
  BY EventsApart DEF Work, PostedWork
<1>4. Effect(w, "posted") /\ Posted(t) \in due /\ work[w] = Idle /\ work'[w] = y
  BY <1>1, <1>2, <1>3, TakesUp
<1>5. \A v \in Workers \ {w} : work'[v] = work[v]
  BY <1>4 DEF Effect
<1>6. \A s : /\ Handled(Reversed(s))' => Handled(Reversed(s))
             /\ Handled(Posted(s))' => Handled(Posted(s)) \/ s = t
  <2> SUFFICES ASSUME NEW s
               PROVE  /\ Handled(Reversed(s))' => Handled(Reversed(s))
                      /\ Handled(Posted(s))' => Handled(Posted(s)) \/ s = t
    OBVIOUS
  <2>1. \A v \in Workers : work'[v].event = Reversed(s) => work[v].event = Reversed(s)
    BY <1>3, <1>4, <1>5, EventsApart
  <2>2. \A v \in Workers : work'[v].event = Posted(s) => work[v].event = Posted(s) \/ s = t
    BY <1>3, <1>4, <1>5, EventsApart
  <2> QED
    BY <2>1, <2>2 DEF Handled, Posted, Reversed
<1>7. TaxTypes' /\ SettledIsTaxed'
  BY <1>2 DEF TaxInv, TaxTypes, SettledIsTaxed, Has
<1>8. RecordedInv'
  BY <1>2, <1>4, RecordedKept DEF TaxInv
<1>9. CalculatingInv'
  BY <1>2, <1>3, <1>4, <1>5, CalculatingKept DEF TaxInv
<1>10. ReversedInv'
  BY <1>2, <1>4, <1>6, ReversedKept DEF TaxInv
<1> QED
  BY <1>2, <1>4, <1>7, <1>8, <1>9, <1>10 DEF TaxInv

LEMMA ReadProfileKeeps ==
  ASSUME DeliveriesInv, TaxInv, NEW w \in Workers, ReadProfile(w)
  PROVE  TaxInv' /\ Effect(w, "posted") /\ UNCHANGED <<job, transactions>>
<1>1. /\ On(w, "posted", "profile")
      /\ UNCHANGED <<due, settled, repeats, cuts, transactions, taxes, profile, changes, job, crossed>>
  BY DEF ReadProfile
<1>2. work[w] # Idle
  BY <1>1, TaxWorkInHand
<1>3. PICK t \in Transactions : /\ work[w].event = Posted(t) /\ t = work[w].event.n
                                /\ work[w] \in PostedWork
  BY <1>1, TaxWorkInHand
<1>4. PICK left \in {profile, Defaults} :
        /\ work' = [work EXCEPT ![w].step = "calculate", ![w].left = left]
        /\ IF left = profile THEN misread' \in {misread, misread \cup {t}}
                             ELSE misread' = misread \cup {t}
  BY <1>3 DEF ReadProfile
<1>5. left \subseteq Types /\ Defaults \subseteq left
  BY <1>4 DEF TaxInv, TaxTypes
<1> PICK y : y = [work[w] EXCEPT !.step = "calculate", !.left = left]
  OBVIOUS
<1>6. y \in Work /\ y.event = Posted(t) /\ y.event = work[w].event /\ y.left = left
  BY <1>3, <1>5 DEF PostedWork, Work
<1>7. Effect(w, "posted") /\ work'[w] = y
  <2>1. work' = [work EXCEPT ![w] = y]
    BY <1>4
  <2>2. transactions' \in [Transactions -> Statuses] /\ work[w].event.kind = "posted"
    BY <1>1 DEF DeliveriesInv, On
  <2> QED
    BY <1>1, <1>2, <1>6, <2>1, <2>2, GoesOnWith
<1>8. /\ \A v \in Workers \ {w} : work'[v] = work[v]
      /\ \A s : /\ Handled(Posted(s))' => Handled(Posted(s))
                /\ Handled(Reversed(s))' => Handled(Reversed(s))
  BY <1>6, <1>7, HandledKept DEF Effect
<1>9. misread \subseteq misread'
  BY <1>4
<1>10. TaxTypes' /\ RecordedInv'
  BY <1>1, <1>7, RecordedKept DEF TaxInv, TaxTypes
<1>11. SettledIsTaxed'
  BY <1>1, <1>9, SettledKept DEF TaxInv
<1>12. CalculatingInv'
  <2>1. ASSUME NEW s \in Transactions, work'[w].event = Posted(s)
        PROVE  /\ \A x \in Defaults : x \in work'[w].left
               /\ changes = 0 /\ s \notin misread' =>
                    /\ work'[w].left \subseteq profile
                    /\ \A x \in profile : x \in work'[w].left
    <3>1. s = t
      <4>1. Posted(s) = Posted(t)
        BY <1>6, <1>7, <2>1
      <4> QED
        BY <4>1, EventsApart
    <3>2. left # profile => s \in misread'
      BY <1>4, <3>1
    <3> QED
      BY <1>5, <1>6, <1>7, <3>2
  <2> QED
    BY <1>1, <1>8, <1>9, <2>1, CalculatingKept DEF TaxInv
<1>13. ReversedInv'
  BY <1>1, <1>7, <1>8, <1>9, ReversedKept DEF TaxInv
<1> QED
  BY <1>1, <1>7, <1>10, <1>11, <1>12, <1>13 DEF TaxInv

LEMMA CalculateKeeps ==
  ASSUME DeliveriesInv, TaxInv, NEW w \in Workers, CalculateForTransaction(w)
  PROVE  TaxInv' /\ Effect(w, "posted") /\ UNCHANGED <<job, transactions>>
<1>1. /\ On(w, "posted", "calculate")
      /\ UNCHANGED <<due, settled, repeats, cuts, transactions, profile, changes, job, misread, crossed>>
  BY DEF CalculateForTransaction
<1>2. work[w] # Idle
  BY <1>1, TaxWorkInHand
<1>3. PICK t \in Transactions : /\ work[w].event = Posted(t) /\ t = work[w].event.n
                                /\ work[w] \in PostedWork
  BY <1>1, TaxWorkInHand
<1>4. PICK x \in work[w].left :
        /\ work' = [work EXCEPT ![w].left = @ \ {x}]
        /\ taxes' = IF Has(t, x) THEN taxes ELSE [taxes EXCEPT ![t][x] = "ACTIVE"]
  BY <1>3 DEF CalculateForTransaction, Calculated
<1>5. x \in Types
  BY <1>3, <1>4 DEF PostedWork
<1> PICK y : y = [work[w] EXCEPT !.left = @ \ {x}]
  OBVIOUS
<1>6. /\ y \in Work /\ y.event = Posted(t) /\ y.event = work[w].event
      /\ y.left = work[w].left \ {x}
  BY <1>3 DEF PostedWork, Work
<1>7. Effect(w, "posted") /\ work'[w] = y
  <2>1. work' = [work EXCEPT ![w] = y]
    BY <1>4
  <2>2. transactions' \in [Transactions -> Statuses] /\ work[w].event.kind = "posted"
    BY <1>1 DEF DeliveriesInv, On
  <2> QED
    BY <1>1, <1>2, <1>6, <2>1, <2>2, GoesOnWith
<1>8. /\ \A v \in Workers \ {w} : work'[v] = work[v]
      /\ \A s : /\ Handled(Posted(s))' => Handled(Posted(s))
                /\ Handled(Reversed(s))' => Handled(Reversed(s))
  BY <1>6, <1>7, HandledKept DEF Effect
<1>9. /\ taxes' \in [Transactions -> [Types -> {"none", "ACTIVE", "VOIDED"}]]
      /\ taxes'[t][x] # "none"
      /\ \A s \in Transactions, z \in Types :
           /\ taxes[s][z] # "none" => taxes'[s][z] # "none"
           /\ taxes'[s][z] = taxes[s][z] \/ (s = t /\ z = x /\ ~Has(t, x))
  <2>1. CASE Has(t, x)
    BY <1>4, <2>1 DEF TaxInv, TaxTypes, Has
  <2>2. CASE ~Has(t, x)
    <3> PICK row : row = [taxes[t] EXCEPT ![x] = "ACTIVE"]
      OBVIOUS
    <3>1. taxes[t] \in [Types -> {"none", "ACTIVE", "VOIDED"}]
      BY DEF TaxInv, TaxTypes
    <3>2. /\ row \in [Types -> {"none", "ACTIVE", "VOIDED"}] /\ row[x] = "ACTIVE"
          /\ \A z \in Types : z # x => row[z] = taxes[t][z]
      BY <1>5, <3>1
    <3>3. taxes' = [taxes EXCEPT ![t] = row]
      BY <1>4, <2>2
    <3>4. /\ taxes' \in [Transactions -> [Types -> {"none", "ACTIVE", "VOIDED"}]]
          /\ taxes'[t] = row /\ \A s \in Transactions \ {t} : taxes'[s] = taxes[s]
      BY <3>2, <3>3 DEF TaxInv, TaxTypes
    <3>5. taxes[t][x] = "none"
      BY <2>2 DEF Has
    <3> QED
      BY <2>2, <3>2, <3>4, <3>5
  <2> QED
    BY <2>1, <2>2
<1>10. TaxTypes' /\ RecordedInv'
  BY <1>1, <1>7, <1>9, RecordedKept DEF TaxInv, TaxTypes
<1>11. SettledIsTaxed'
  BY <1>1, <1>9, SettledKept DEF TaxInv
<1>12. /\ \A z \in Defaults : taxes[t][z] # "none" \/ z \in work[w].left
       /\ changes = 0 /\ t \notin misread =>
            /\ work[w].left \subseteq profile
            /\ \A z \in profile : taxes[t][z] # "none" \/ z \in work[w].left
  BY <1>1, <1>3 DEF TaxInv, CalculatingInv, On, Has
<1>13. CalculatingInv'
  <2>1. Defaults \subseteq Types /\ profile \subseteq Types
    BY DEF TaxInv, TaxTypes
  <2>2. /\ \A z \in Defaults : taxes'[t][z] # "none" \/ z \in work'[w].left
        /\ changes = 0 /\ t \notin misread' =>
             /\ work'[w].left \subseteq profile
             /\ \A z \in profile : taxes'[t][z] # "none" \/ z \in work'[w].left
    BY <1>1, <1>6, <1>7, <1>9, <1>12, <2>1
  <2>3. ASSUME NEW s \in Transactions, work'[w].event = Posted(s)
        PROVE  s = t
    <3>1. Posted(s) = Posted(t)
      BY <1>6, <1>7, <2>3
    <3> QED
      BY <3>1, EventsApart
  <2> QED
    BY <1>1, <1>8, <1>9, <2>2, <2>3, CalculatingKept DEF TaxInv
<1>14. ReversedInv'
  <2>1. ASSUME NEW s \in Transactions \ crossed, Reversed(s) \in settled,
               repeats = 0 \/ (changes = 0 /\ s \notin misread), NEW z \in Types,
               taxes'[s][z] # taxes[s][z]
        PROVE  FALSE
    <3>1. s = t /\ z = x /\ ~Has(t, x)
      BY <1>9, <2>1
    <3>2. /\ Posted(t) \in settled
          /\ repeats = 0 => ~Handled(Posted(t))
      BY <2>1, <3>1 DEF TaxInv, ReversedInv
    <3>3. Handled(Posted(t))
      BY <1>3 DEF Handled
    <3>4. changes = 0 /\ t \notin misread
      BY <2>1, <3>1, <3>2, <3>3
    <3>5. x \in profile
      BY <1>4, <1>12, <3>4
    <3>6. Has(t, x)
      BY <3>2, <3>4, <3>5 DEF TaxInv, SettledIsTaxed, Posted
    <3> QED
      BY <3>1, <3>6
  <2> QED
    BY <1>1, <1>7, <1>8, <2>1, ReversedKept DEF TaxInv
<1> QED
  BY <1>1, <1>7, <1>10, <1>11, <1>13, <1>14 DEF TaxInv

LEMMA AllCalculatedKeeps ==
  ASSUME DeliveriesInv, TaxInv, NEW w \in Workers, AllCalculated(w)
  PROVE  TaxInv' /\ Effect(w, "posted") /\ UNCHANGED <<job, transactions>>
<1>1. /\ On(w, "posted", "calculate") /\ work[w].left = {} /\ Acks(w)
      /\ UNCHANGED <<repeats, cuts, transactions, taxes, profile, changes, job, misread, crossed>>
  BY DEF AllCalculated, taxVars
<1>2. work[w].event \in due \cup settled
  BY <1>1, TaxWorkInHand
<1>3. PICK t \in Transactions : work[w].event = Posted(t)
  BY <1>1, TaxWorkInHand
<1>4. Effect(w, "posted") /\ work'[w] = Idle
  <2>1. transactions' \in [Transactions -> Statuses] /\ work[w].event.kind = "posted"
    BY <1>1 DEF DeliveriesInv, On
  <2> QED
    BY <1>1, <2>1, AcksWith
<1>5. /\ \A v \in Workers \ {w} : work'[v] = work[v]
      /\ \A s : /\ Handled(Posted(s))' => Handled(Posted(s))
                /\ Handled(Reversed(s))' => Handled(Reversed(s))
  BY <1>4, HandledKept DEF Effect
<1>6. \A s : /\ Posted(s) \in settled' => Posted(s) \in settled \/ s = t
             /\ Reversed(s) \in settled' => Reversed(s) \in settled
  BY <1>1, <1>3, EventsApart DEF Acks
<1>7. /\ \A x \in Defaults : Has(t, x)
      /\ changes = 0 /\ t \notin misread => \A x \in profile : Has(t, x)
  BY <1>1, <1>3 DEF TaxInv, CalculatingInv, On
<1>8. TaxTypes' /\ RecordedInv'
  BY <1>1, <1>2, <1>4, RecordedKept DEF TaxInv, TaxTypes
<1>9. SettledIsTaxed'
  BY <1>1, <1>6, <1>7, SettledKept DEF TaxInv, Has
<1>10. CalculatingInv'
  <2>1. \A s : work'[w].event # Posted(s)
    BY <1>4, EventsApart, IdleIsWork
  <2> QED
    BY <1>1, <1>5, <2>1, CalculatingKept DEF TaxInv
<1>11. ReversedInv'
  BY <1>1, <1>4, <1>5, <1>6, ReversedKept DEF TaxInv
<1> QED
  BY <1>1, <1>4, <1>8, <1>9, <1>10, <1>11 DEF TaxInv

LEMMA TakeReversalKeeps ==
  ASSUME DeliveriesInv, TaxInv, NEW w \in Workers, TakeReversal(w)
  PROVE  TaxInv' /\ Effect(w, "reversed") /\ UNCHANGED <<job, transactions>>
<1>1. PICK t \in Transactions :
        /\ Take(w, Reversed(t), "void")
        /\ crossed' = IF Posted(t) \in due \/ Handled(Posted(t)) THEN crossed \cup {t} ELSE crossed
  BY DEF TakeReversal, Posted, Reversed
<1>2. UNCHANGED <<due, settled, repeats, cuts, transactions, taxes, profile, changes, job, misread>>
  BY DEF TakeReversal
<1> PICK y : y = [event |-> Reversed(t), step |-> "void", left |-> {}]
  OBVIOUS
<1>3. y \in Work /\ y.event = Reversed(t) /\ y.step = "void" /\ Reversed(t).kind = "reversed"
  BY EventsApart DEF Work, ReversedWork
<1>4. Effect(w, "reversed") /\ Reversed(t) \in due /\ work[w] = Idle /\ work'[w] = y
  BY <1>1, <1>2, <1>3, TakesUp
<1>5. \A v \in Workers \ {w} : work'[v] = work[v]
  BY <1>4 DEF Effect
<1>6. \A s : /\ Handled(Reversed(s))' => Handled(Reversed(s)) \/ s = t
             /\ Handled(Posted(s))' => Handled(Posted(s))
  <2> SUFFICES ASSUME NEW s
               PROVE  /\ Handled(Reversed(s))' => Handled(Reversed(s)) \/ s = t
                      /\ Handled(Posted(s))' => Handled(Posted(s))
    OBVIOUS
  <2>1. \A v \in Workers : work'[v].event = Reversed(s) => work[v].event = Reversed(s) \/ s = t
    BY <1>3, <1>4, <1>5, EventsApart
  <2>2. \A v \in Workers : work'[v].event = Posted(s) => work[v].event = Posted(s)
    BY <1>3, <1>4, <1>5, EventsApart
  <2> QED
    BY <2>1, <2>2 DEF Handled, Posted, Reversed
<1>7. Posted(t) \in due \cup settled
  BY <1>4 DEF TaxInv, RecordedInv, DeliveriesInv, Statuses
<1>8. t \notin crossed' => Posted(t) \in settled /\ Posted(t) \notin due /\ ~Handled(Posted(t))
  BY <1>1, <1>7
<1>9. TaxTypes' /\ SettledIsTaxed'
  BY <1>2 DEF TaxInv, TaxTypes, SettledIsTaxed, Has
<1>10. RecordedInv'
  BY <1>2, <1>4, RecordedKept DEF TaxInv
<1>11. CalculatingInv'
  BY <1>2, <1>3, <1>4, <1>5, CalculatingKept DEF TaxInv
<1>12. crossed \subseteq crossed'
  BY <1>1
<1>13. ReversedInv'
  BY <1>2, <1>4, <1>6, <1>8, <1>12, ReversedKept DEF TaxInv
<1> QED
  BY <1>2, <1>4, <1>9, <1>10, <1>11, <1>13 DEF TaxInv

LEMMA HandleReversalKeeps ==
  ASSUME DeliveriesInv, TaxInv, NEW w \in Workers, HandleReversal(w)
  PROVE  TaxInv' /\ Effect(w, "reversed") /\ UNCHANGED <<job, transactions>>
<1>1. /\ On(w, "reversed", "void") /\ Acks(w)
      /\ UNCHANGED <<repeats, cuts, transactions, profile, changes, job, misread, crossed>>
  BY DEF HandleReversal
<1>2. work[w].event \in due \cup settled
  BY <1>1, TaxWorkInHand
<1>3. PICK t \in Transactions : work[w].event = Reversed(t) /\ t = work[w].event.n
  BY <1>1, TaxWorkInHand
<1> PICK row : row = [x \in Types |-> IF taxes[t][x] = "ACTIVE" THEN "VOIDED" ELSE taxes[t][x]]
  OBVIOUS
<1>4. taxes' = [taxes EXCEPT ![t] = row]
  BY <1>3 DEF HandleReversal
<1>5. /\ row \in [Types -> {"none", "ACTIVE", "VOIDED"}]
      /\ \A x \in Types : row[x] # "ACTIVE" /\ (taxes[t][x] # "none" => row[x] # "none")
  BY DEF TaxInv, TaxTypes
<1>6. /\ taxes' \in [Transactions -> [Types -> {"none", "ACTIVE", "VOIDED"}]]
      /\ taxes'[t] = row /\ \A s \in Transactions \ {t} : taxes'[s] = taxes[s]
  BY <1>4, <1>5 DEF TaxInv, TaxTypes
<1>7. Effect(w, "reversed") /\ work'[w] = Idle
  <2>1. transactions' \in [Transactions -> Statuses] /\ work[w].event.kind = "reversed"
    BY <1>1 DEF DeliveriesInv, On
  <2> QED
    BY <1>1, <2>1, AcksWith
<1>8. /\ \A v \in Workers \ {w} : work'[v] = work[v]
      /\ \A s : /\ Handled(Posted(s))' => Handled(Posted(s))
                /\ Handled(Reversed(s))' => Handled(Reversed(s))
  BY <1>7, HandledKept DEF Effect
<1>9. \A s : /\ Posted(s) \in settled' => Posted(s) \in settled
             /\ Reversed(s) \in settled' => Reversed(s) \in settled \/ s = t
  BY <1>1, <1>3, EventsApart DEF Acks
<1>10. \A s \in Transactions, x \in Types :
         /\ taxes[s][x] # "none" => taxes'[s][x] # "none"
         /\ taxes'[s][x] = "ACTIVE" => taxes[s][x] = "ACTIVE" /\ s # t
  BY <1>5, <1>6
<1>11. Handled(Reversed(t))
  BY <1>3 DEF Handled
<1>12. TaxTypes' /\ RecordedInv'
  BY <1>1, <1>2, <1>6, <1>7, RecordedKept DEF TaxInv, TaxTypes
<1>13. SettledIsTaxed'
  BY <1>1, <1>9, <1>10, SettledKept DEF TaxInv
<1>14. CalculatingInv'
  <2>1. \A s : work'[w].event # Posted(s)
    BY <1>7, EventsApart, IdleIsWork
  <2> QED
    BY <1>1, <1>8, <1>10, <2>1, CalculatingKept DEF TaxInv
<1>15. ReversedInv'
  BY <1>1, <1>7, <1>8, <1>9, <1>10, <1>11, ReversedKept DEF TaxInv
<1> QED
  BY <1>1, <1>7, <1>12, <1>13, <1>14, <1>15 DEF TaxInv

LEMMA TaxStepKeeps ==
  ASSUME DeliveriesInv, TaxInv, ReportInv, NEW w \in Workers, TaxStep(w)
  PROVE  /\ TaxInv' /\ ReportInv' /\ UNCHANGED transactions
         /\ \E kind \in {"posted", "reversed", "report"} : Effect(w, kind)
<1>1. CASE HandleReportGeneration(w) \/ TakeReport(w) \/ GenerateReport(w)
  <2>1. /\ ReportInv' /\ Effect(w, "report")
        /\ UNCHANGED <<taxes, profile, changes, misread, crossed, transactions>>
    BY <1>1, ReportStepKeeps
  <2>2. Apart("posted") /\ Apart("reversed")
    BY <2>1, Elsewhere
  <2>3. \A v \in Workers : work'[v] = work[v] \/ work'[v].event.kind \notin {"posted", "reversed"}
    BY <2>1 DEF Effect
  <2>4. \A t \in Transactions :
          /\ (Posted(t) \in due' <=> Posted(t) \in due)
          /\ (Posted(t) \in settled' <=> Posted(t) \in settled)
          /\ (Reversed(t) \in due' <=> Reversed(t) \in due)
          /\ (Reversed(t) \in settled' <=> Reversed(t) \in settled)
    BY <2>2, EventsApart DEF Apart
  <2>5. UNCHANGED repeats
    BY <2>1 DEF Effect
  <2>6. TaxInv'
    BY <2>1, <2>3, <2>4, <2>5, TaxKept
  <2> QED
    BY <2>1, <2>6
<1>2. ASSUME TaxInv', UNCHANGED <<job, transactions>>, Effect(w, "posted") \/ Effect(w, "reversed")
      PROVE  /\ TaxInv' /\ ReportInv' /\ UNCHANGED transactions
             /\ \E kind \in {"posted", "reversed", "report"} : Effect(w, kind)
  <2>1. Apart("report")
    BY <1>2, Elsewhere
  <2>2. \A j \in Jobs : Report(j) \in due => Report(j) \in due'
    BY <2>1 DEF Apart, Report, Event
  <2>3. cuts' = cuts /\ \A v \in Workers : work[v].event.kind = "report" => work'[v] = work[v]
    BY <2>1 DEF Apart
  <2>4. ReportInv'
    BY <1>2, <2>2, <2>3, ReportKept
  <2> QED
    BY <1>2, <2>4
<1> QED
  BY <1>1, <1>2, TakePostedKeeps, ReadProfileKeeps, CalculateKeeps, AllCalculatedKeeps,
     TakeReversalKeeps, HandleReversalKeeps DEF TaxStep

-----------------------------------------------------------------------------
(* All of it together.                                                     *)

LEMMA ChartElsewhere ==
  ASSUME ChartInv, UNCHANGED chartVars, Apart("workspace")
  PROVE  ChartInv'
<1>1. Created \in due => Created \in due'
  BY DEF Apart, Created, Event
<1> QED
  BY <1>1, ChartKept

LEMMA DocumentElsewhere ==
  ASSUME DocumentInv, UNCHANGED documentVars, Apart("uploaded")
  PROVE  DocumentInv'
<1>1. \A e \in Uploaded : e \in due => e \in due'
  BY DEF Apart, Uploaded, Event
<1> QED
  BY <1>1, DocumentKept DEF Apart

LEMMA TaxElsewhere ==
  ASSUME TaxInv, ReportInv, UNCHANGED taxVars, Apart("posted"), Apart("reversed"), Apart("report"),
         \A t \in Transactions : \/ transactions'[t] = transactions[t]
                                 \/ transactions[t] = "none" /\ transactions'[t] = "DRAFT"
  PROVE  TaxInv' /\ ReportInv'
<1>1. UNCHANGED <<taxes, profile, changes, job, misread, crossed, repeats, cuts>>
  BY DEF taxVars, Apart
<1>2. \A t \in Transactions :
        /\ (Posted(t) \in due' <=> Posted(t) \in due)
        /\ (Posted(t) \in settled' <=> Posted(t) \in settled)
        /\ (Reversed(t) \in due' <=> Reversed(t) \in due)
        /\ (Reversed(t) \in settled' <=> Reversed(t) \in settled)
  BY EventsApart DEF Apart
<1>3. \A v \in Workers : work'[v] = work[v] \/ work'[v].event.kind \notin {"posted", "reversed"}
  BY DEF Apart
<1>4. \A j \in Jobs : Report(j) \in due => Report(j) \in due'
  BY DEF Apart, Report, Event
<1>5. \A v \in Workers : work[v].event.kind = "report" => work'[v] = work[v]
  BY DEF Apart
<1> QED
  BY <1>1, <1>2, <1>3, <1>4, <1>5, TaxKept, ReportKept

LEMMA StepKeeps ==
  ASSUME AllInv, NEW w \in Workers, Step(w)
  PROVE  AllInv'
<1> USE DEF AllInv
<1>1. CASE ChartStep(w) /\ UNCHANGED <<documentVars, taxVars>>
  <2>1. ChartInv' /\ Effect(w, "workspace") /\ UNCHANGED transactions
    BY <1>1, ChartStepKeeps
  <2>2. Apart("uploaded") /\ Apart("posted") /\ Apart("reversed") /\ Apart("report")
    BY <2>1, Elsewhere
  <2> QED
    BY <1>1, <2>1, <2>2, DocumentElsewhere, TaxElsewhere DEF Effect
<1>2. CASE DocumentStep(w) /\ UNCHANGED <<chartVars, taxVars>>
  <2>1. /\ DocumentInv' /\ Effect(w, "uploaded")
        /\ \A t \in Transactions : \/ transactions'[t] = transactions[t]
                                   \/ transactions[t] = "none" /\ transactions'[t] = "DRAFT"
    BY <1>2, DocumentStepKeeps
  <2>2. Apart("workspace") /\ Apart("posted") /\ Apart("reversed") /\ Apart("report")
    BY <2>1, Elsewhere
  <2> QED
    BY <1>2, <2>1, <2>2, ChartElsewhere, TaxElsewhere DEF Effect
<1>3. CASE TaxStep(w) /\ UNCHANGED <<chartVars, documentVars>>
  <2>1. TaxInv' /\ ReportInv'
    BY <1>3, TaxStepKeeps
  <2>2. PICK kind \in {"posted", "reversed", "report"} : Effect(w, kind)
    BY <1>3, TaxStepKeeps
  <2>3. Apart("workspace") /\ Apart("uploaded")
    BY <2>2, Elsewhere
  <2> QED
    BY <1>3, <2>1, <2>2, <2>3, ChartElsewhere, DocumentElsewhere DEF Effect
<1> QED
  BY <1>1, <1>2, <1>3 DEF Step

\* A request or the world records an event; callbacks do nothing.
LEMMA Records ==
  ASSUME DeliveriesInv, UNCHANGED <<settled, work, cuts>>, due \subseteq due', repeats' \in Nat,
         transactions' \in [Transactions -> Statuses]
  PROVE  DeliveriesInv'
BY DEF DeliveriesInv

LEMMA RecordsApart ==
  ASSUME NEW e, due' = due \/ due' = due \cup {e}, UNCHANGED <<settled, work, repeats, cuts>>,
         NEW kind, e.kind # kind
  PROVE  Apart(kind)
BY DEF Apart

LEMMA RequestKeeps ==
  ASSUME AllInv,
         \/ ChartRequest /\ UNCHANGED <<documentVars, taxVars>>
         \/ DocumentRequest /\ UNCHANGED <<chartVars, taxVars>>
         \/ TaxRequest /\ UNCHANGED <<chartVars, documentVars>>
  PROVE  AllInv'
<1> USE DEF AllInv
<1>0. repeats \in Nat /\ transactions \in [Transactions -> Statuses]
  BY DEF DeliveriesInv
<1>1. CASE ChartRequest /\ UNCHANGED <<documentVars, taxVars>>
  <2>1. /\ ChartInv' /\ due' \in {due, due \cup {Created}}
        /\ UNCHANGED <<settled, work, repeats, cuts, transactions>>
    BY <1>1, ChartRequestKeeps
  <2>2. Created.kind = "workspace"
    BY DEF Created, Event
  <2>3. Apart("uploaded") /\ Apart("posted") /\ Apart("reversed") /\ Apart("report")
    BY <2>1, <2>2, RecordsApart
  <2>4. DeliveriesInv'
    BY <1>0, <2>1, Records
  <2> QED
    BY <1>1, <2>1, <2>3, <2>4, DocumentElsewhere, TaxElsewhere
<1>2. CASE DocumentRequest /\ UNCHANGED <<chartVars, taxVars>>
  <2>1. /\ DocumentInv' /\ UNCHANGED <<settled, work, repeats, cuts, transactions>>
        /\ due' = due \/ \E e \in Uploaded : due' = due \cup {e}
    BY <1>2, DocumentRequestKeeps
  <2>2. \A e \in Uploaded : e.kind = "uploaded"
    BY DEF Uploaded, Event
  <2>3. Apart("workspace") /\ Apart("posted") /\ Apart("reversed") /\ Apart("report")
    <3>1. CASE due' = due
      BY <2>1, <3>1 DEF Apart
    <3>2. CASE \E e \in Uploaded : due' = due \cup {e}
      BY <2>1, <2>2, <3>2, RecordsApart
    <3> QED
      BY <2>1, <3>1, <3>2
  <2>4. DeliveriesInv'
    BY <1>0, <2>1, Records
  <2> QED
    BY <1>2, <2>1, <2>3, <2>4, ChartElsewhere, TaxElsewhere
<1>3. CASE UpdateProfile /\ UNCHANGED <<chartVars, documentVars>>
  <2>1. TaxInv' /\ UNCHANGED <<job, due, settled, work, repeats, cuts, transactions>>
    BY <1>3, UpdateProfileKeeps
  <2>2. Apart("workspace") /\ Apart("uploaded") /\ Apart("report")
    BY <2>1 DEF Apart
  <2>3. ReportInv'
    BY <2>1, ReportKept
  <2>4. DeliveriesInv'
    BY <1>0, <2>1, Records
  <2> QED
    BY <1>3, <2>1, <2>2, <2>3, <2>4, ChartElsewhere, DocumentElsewhere
<1>4. ASSUME NEW j \in Jobs, RequestReport(j), UNCHANGED <<chartVars, documentVars>>
      PROVE  AllInv'
  <2>1. /\ ReportInv' /\ due' = due \cup {Report(j)}
        /\ UNCHANGED <<taxes, profile, changes, misread, crossed, settled, work, repeats, cuts, transactions>>
    BY <1>4, RequestReportKeeps
  <2>2. Report(j).kind = "report"
    BY DEF Report, Event
  <2>3. Apart("workspace") /\ Apart("uploaded") /\ Apart("posted") /\ Apart("reversed")
    BY <2>1, <2>2, RecordsApart
  <2>4. \A t \in Transactions :
          /\ (Posted(t) \in due' <=> Posted(t) \in due)
          /\ (Posted(t) \in settled' <=> Posted(t) \in settled)
          /\ (Reversed(t) \in due' <=> Reversed(t) \in due)
          /\ (Reversed(t) \in settled' <=> Reversed(t) \in settled)
    BY <2>3, EventsApart DEF Apart
  <2>5. TaxInv'
    BY <2>1, <2>4, TaxKept
  <2>6. DeliveriesInv'
    BY <1>0, <2>1, Records
  <2> QED
    BY <1>4, <2>1, <2>3, <2>5, <2>6, ChartElsewhere, DocumentElsewhere
<1> QED
  BY <1>1, <1>2, <1>3, <1>4 DEF TaxRequest

LEMMA CutKeeps ==
  ASSUME AllInv, NEW w \in Workers, Cut(w), UNCHANGED <<chartVars, documentVars, taxVars>>
  PROVE  AllInv'
<1> USE DEF AllInv
<1>1. /\ cuts' = cuts + 1 /\ work' = [work EXCEPT ![w] = Idle]
      /\ UNCHANGED <<due, settled, repeats, transactions>>
  BY DEF Cut, CutOff, Naks
<1>2. cuts' \in Nat /\ cuts' # 0 /\ repeats' \in Nat /\ transactions' \in [Transactions -> Statuses]
  BY <1>1 DEF DeliveriesInv
<1>3. DeliveriesInv' /\ work'[w] = Idle /\ \A v \in Workers \ {w} : work'[v] = work[v]
  BY <1>1, <1>2, IdleIsWork, CallbackMoves
<1>4. ChartInv'
  BY <1>1, ChartKept
<1>5. \A v \in Workers : work'[v] = work[v] \/ work'[v].event.kind = "none"
  BY <1>3, IdleIsWork
<1>6. DocumentInv'
  BY <1>1, <1>2, <1>5, DocumentKept
<1>7. UNCHANGED <<taxes, profile, changes, job, misread, crossed>>
  BY DEF taxVars
<1>8. TaxInv'
  BY <1>1, <1>5, <1>7, TaxKept
<1>9. ReportInv'
  BY <1>1, <1>2, <1>7, ReportKept
<1> QED
  BY <1>3, <1>4, <1>6, <1>8, <1>9

LEMMA WorldKeeps ==
  ASSUME AllInv, World, UNCHANGED <<chartVars, documentVars, taxVars>>
  PROVE  AllInv'
<1> USE DEF AllInv
<1>0. /\ repeats \in Nat /\ transactions \in [Transactions -> Statuses]
      /\ UNCHANGED <<taxes, profile, changes, job, misread, crossed>>
  BY DEF DeliveriesInv, taxVars
<1>1. ASSUME NEW t \in Transactions, LedgerPosts(t) \/ Void(t)
      PROVE  AllInv'
  <2>1. PICK e \in {Posted(t), Reversed(t)} : due' = due \cup {e}
    BY <1>1 DEF LedgerPosts, Void, Posted, Reversed
  <2>2. UNCHANGED <<settled, work, repeats, cuts>> /\ transactions' \in [Transactions -> Statuses]
    BY <1>0, <1>1 DEF LedgerPosts, Void, Statuses
  <2>3. e.kind \in {"posted", "reversed"}
    BY EventsApart
  <2>4. Apart("workspace") /\ Apart("uploaded") /\ Apart("report")
    BY <2>1, <2>2, <2>3, RecordsApart
  <2>5. \A j \in Jobs : Report(j) \in due => Report(j) \in due'
    BY <2>1
  <2>6. ReportInv'
    BY <1>0, <2>2, <2>5, ReportKept
  <2>7. TaxInv'
    BY <1>1, LedgerPostsKeeps, VoidKeeps
  <2>8. DeliveriesInv'
    BY <1>0, <2>1, <2>2, Records
  <2> QED
    BY <2>4, <2>6, <2>7, <2>8, ChartElsewhere, DocumentElsewhere
<1>2. ASSUME NEW e \in settled, Repeat(e)
      PROVE  AllInv'
  <2>1. /\ due' = due \cup {e} /\ repeats' = repeats + 1
        /\ UNCHANGED <<settled, work, cuts, transactions>>
    BY <1>2 DEF Repeat
  <2>2. repeats' \in Nat
    BY <1>0, <2>1
  <2>3. DeliveriesInv'
    BY <1>0, <2>1, <2>2, Records
  <2>4. ChartInv' /\ DocumentInv'
    BY <2>1, ChartKept, DocumentKept
  <2>5. ReportInv'
    BY <1>0, <2>1, ReportKept
  <2>6. TaxInv'
    BY <1>2, RepeatKeeps
  <2> QED
    BY <2>3, <2>4, <2>5, <2>6
<1> QED
  BY <1>1, <1>2 DEF World

LEMMA AllStepInv == AllInv /\ [AllSteps]_AllButClaims => AllInv'
<1> SUFFICES ASSUME AllInv, [AllSteps]_AllButClaims PROVE AllInv'
  OBVIOUS
<1>1. CASE Next
  BY <1>1, StepKeeps, CutKeeps, RequestKeeps, WorldKeeps DEF Next
<1>2. CASE UNCHANGED <<deliveryVars, chartVars, documentVars, taxVars>>
  <2>1. UNCHANGED <<due, settled, work, repeats, cuts, transactions>>
    BY <1>2 DEF deliveryVars
  <2>2. Apart("workspace") /\ Apart("uploaded") /\ Apart("posted") /\ Apart("reversed") /\ Apart("report")
    BY <2>1 DEF Apart
  <2>3. DeliveriesInv'
    BY <2>1 DEF AllInv, DeliveriesInv
  <2> QED
    BY <1>2, <2>1, <2>2, <2>3, ChartElsewhere, DocumentElsewhere, TaxElsewhere DEF AllInv
<1> QED
  BY <1>1, <1>2 DEF AllSteps, AllButClaims, Books

\* Nobody works on anything, and at most an upload is settled.
Quiet ==
  /\ due = {} /\ settled \subseteq {Event("uploaded", 1)}
  /\ work = [w \in Workers |-> Idle] /\ repeats = 0 /\ cuts = 0
  /\ transactions \in [Transactions -> {"none", "DRAFT"}]

LEMMA QuietInit ==
  ASSUME Quiet
  PROVE  /\ DeliveriesInv
         /\ ChartInit \/ ChartDone => ChartInv
         /\ created = {} /\ linked = 0 /\ (extraction = "none" \/ (extraction = "FAILED" /\ upload # "none"))
              => DocumentInv
         /\ TaxesInit \/ NoTaxWork => TaxInv /\ ReportInv
<1>1. DeliveriesInv
  BY IdleIsWork DEF Quiet, DeliveriesInv, Statuses
<1>2. ChartInit \/ ChartDone => ChartInv
  BY DEF ChartInit, ChartDone, ChartInv, ChartFollows
<1>3. \A w \in Workers : \A step : ~On(w, "uploaded", step)
  BY IdleIsWork DEF Quiet, On
<1>4. created = {} /\ linked = 0 /\ (extraction = "none" \/ (extraction = "FAILED" /\ upload # "none"))
        => DocumentInv
  BY <1>3 DEF DocumentInv, Past, ExtractionGoesOn
<1>5. ASSUME TaxesInit \/ NoTaxWork
      PROVE  TaxInv /\ ReportInv
  <2>1. TaxTypes
    BY <1>5, TaxesAssumption DEF TaxesAssumption, TaxesInit, NoTaxWork, TaxTypes
  <2>2. \A t : /\ Posted(t) \notin due \cup settled /\ Reversed(t) \notin due \cup settled
               /\ ~Handled(Posted(t)) /\ ~Handled(Reversed(t))
    <3>1. \A t : Posted(t) \notin due \cup settled /\ Reversed(t) \notin due \cup settled
      <4>1. \A e \in settled : e.kind = "uploaded"
        BY DEF Quiet, Event
      <4> QED
        BY <4>1, EventsApart DEF Quiet
    <3> QED
      BY <1>1, <3>1, HandledIsRecorded
  <2>3. RecordedInv
    BY <2>2 DEF Quiet, RecordedInv
  <2>4. CalculatingInv
    BY IdleIsWork, EventsApart DEF Quiet, CalculatingInv
  <2>5. SettledIsTaxed
    BY <2>2 DEF SettledIsTaxed, Posted
  <2>6. ReversedInv
    BY <2>2 DEF ReversedInv
  <2>7. ReportInv
    BY <1>5 DEF TaxesInit, NoTaxWork, ReportInv, ReportsGoOn
  <2> QED
    BY <2>1, <2>3, <2>4, <2>5, <2>6, <2>7 DEF TaxInv
<1> QED
  BY <1>1, <1>2, <1>4, <1>5

LEMMA AllInitInv == Together \/ Init => AllInv
<1> USE DEF AllInv
<1>1. DeliveriesInit => Quiet
  BY DEF DeliveriesInit, Quiet
<1>2. CASE Together
  BY <1>1, <1>2, QuietInit DEF Together, DocumentsInit
<1>3. CASE NewWorkspace
  BY <1>1, <1>3, QuietInit DEF NewWorkspace
<1>4. CASE NewDocument
  BY <1>1, <1>4, QuietInit DEF NewDocument, DocumentsInit
<1>5. CASE NewDraft
  <2>1. Quiet
    BY <1>5 DEF NewDraft, Quiet
  <2> QED
    BY <1>5, <2>1, QuietInit DEF NewDraft
<1>6. CASE NewRequest
  BY <1>1, <1>6, QuietInit DEF NewRequest
<1> QED
  BY <1>2, <1>3, <1>4, <1>5, <1>6 DEF Init

\* A step that is explored is one of these.
LEMMA ExploredSteps == [MCNext]_<<claiming, AllButClaims, claimsVars>> => [AllSteps]_AllButClaims
BY DEF MCNext, AllSteps

\* Whatever is explored, on its own or at once.
LEMMA DeliveriesInvariant == MCSpec \/ AtOnce => []AllInv
<1>1. MCSpec => [](AllInv)
  <2>1. Init => AllInv
    BY AllInitInv
  <2> QED
    BY <2>1, AllStepInv, ExploredSteps, PTL DEF MCSpec
<1>2. AtOnce => []AllInv
  <2>1. Together => AllInv
    BY AllInitInv
  <2> QED
    BY <2>1, AllStepInv, PTL DEF AtOnce
<1> QED
  BY <1>1, <1>2, PTL

\* A workspace without any account is still to get its chart, unless its
\* creation ended before the event (internal/workspace/service.go
\* CreateWorkspace, internal/accounting/coa_service.go SeedDefaultCOA).
THEOREM ChartsFollow == MCSpec \/ AtOnce => []ChartFollows
<1>1. AllInv => ChartFollows
  BY DEF AllInv, ChartInv
<1> QED
  BY <1>1, DeliveriesInvariant, PTL

\* However often an upload is confirmed and its event handled, the document
\* makes one transaction and points at no other (internal/document/worker.go
\* HandleDocumentUploaded).
THEOREM DocumentsMakeOne == MCSpec \/ AtOnce => []OneTransaction
<1>1. AllInv => OneTransaction
  <2> SUFFICES ASSUME AllInv PROVE OneTransaction
    OBVIOUS
  <2>1. Cardinality(created) <= 1
    <3>1. CASE created = {}
      BY <3>1, FS_EmptySet
    <3>2. ASSUME NEW t \in Transactions, created = {t}
          PROVE  Cardinality(created) <= 1
      BY <3>2, FS_Singleton
    <3> QED
      BY <3>1, <3>2 DEF AllInv, DocumentInv
  <2> QED
    BY <2>1 DEF AllInv, DocumentInv, OneTransaction
<1> QED
  BY <1>1, DeliveriesInvariant, PTL

\* An upload that waits and a report that was asked for are in the hands of a
\* callback or still to come to one, unless one was cut off
\* (internal/document/worker.go, internal/tax/worker.go HandleReportGeneration).
THEOREM WorkIsNotLost == MCSpec \/ AtOnce => []WorkGoesOn
<1>1. AllInv => WorkGoesOn
  BY DEF AllInv, DocumentInv, ReportInv, WorkGoesOn
<1> QED
  BY <1>1, DeliveriesInvariant, PTL

\* What is settled is taxed, and what is void and settled is not, whatever was
\* repeated, cut off and overtaken (internal/tax/worker.go HandleLedgerPosted).
THEOREM TaxesFollowTheLedger == MCSpec \/ AtOnce => []TaxesFollow
<1>1. AllInv => TaxesFollow
  <2> SUFFICES ASSUME AllInv PROVE TaxesFollow
    OBVIOUS
  <2>1. ASSUME NEW t \in Transactions \ crossed, Reversed(t) \in settled,
               repeats = 0 \/ (changes = 0 /\ t \notin misread)
        PROVE  \A x \in Types : taxes[t][x] # "ACTIVE"
    BY <2>1 DEF AllInv, TaxInv, ReversedInv
  <2>2. VoidHasNoTax
    BY <2>1 DEF VoidHasNoTax, Posted, Reversed
  <2> QED
    BY <2>2 DEF AllInv, TaxInv, TaxesFollow
<1> QED
  BY <1>1, DeliveriesInvariant, PTL

-----------------------------------------------------------------------------
(* The tables of rules.                                                    *)

Cash == {"1-1001", "1-1002"}

\* The accounts on which a type moves the amount of the request.
MoneyOf(type) ==
  CASE type = "SALES" -> Cash \cup {"1-1003"}
    [] type = "PURCHASE" -> Cash \cup {"2-1001"}
    [] OTHER -> Cash

\* What an entry moves on S: in by its debit, out by its credit.
In(entry, S) == entry[1] \in S /\ entry[2] \notin S
Out(entry, S) == entry[1] \notin S /\ entry[2] \in S
Beside(entry, S) == entry[1] \notin S /\ entry[2] \notin S

\* The rule of a category that fits the type.
Fits(rule, type, c) ==
  LET Money(entry) == IF type \in {"CASH_IN", "SALES"} THEN In(entry, MoneyOf(type))
                      ELSE Out(entry, MoneyOf(type))
  IN /\ Money(rule[1]) /\ Beside(rule[1], {"1-1008", "2-1005"})
     /\ IF IsPPNCategory(c)
        THEN /\ DOMAIN rule = {1, 2} /\ Money(rule[2]) /\ IsPPNJournalEntry(rule[2])
        ELSE \/ DOMAIN rule = {1}
             \/ /\ DOMAIN rule = {1, 2} /\ Beside(rule[2], MoneyOf(type))
                /\ ~IsPPNJournalEntry(rule[2])

Known(rule) ==
  \A i \in DOMAIN rule : {rule[i][1], rule[i][2]} \subseteq DefaultCOATemplate

LEMMA CashInFits ==
  ASSUME NEW c \in ValidCategories["CASH_IN"]
  PROVE  /\ c \in DOMAIN CashInRules
         /\ In(CashInRules[c], Cash) /\ Beside(CashInRules[c], {"1-1008", "2-1005"})
         /\ {CashInRules[c][1], CashInRules[c][2]} \subseteq DefaultCOATemplate
         /\ ~IsPPNCategory(c)
BY DEF CashInRules, ValidCategories, In, Beside, Cash, DefaultCOATemplate, IsPPNCategory

LEMMA CashOutFits ==
  ASSUME NEW c \in ValidCategories["CASH_OUT"]
  PROVE  /\ c \in DOMAIN CashOutRules
         /\ Out(CashOutRules[c], Cash) /\ Beside(CashOutRules[c], {"1-1008", "2-1005"})
         /\ {CashOutRules[c][1], CashOutRules[c][2]} \subseteq DefaultCOATemplate
         /\ ~IsPPNCategory(c)
BY DEF CashOutRules, ValidCategories, Out, Beside, Cash, DefaultCOATemplate, IsPPNCategory

LEMMA SalesFit ==
  ASSUME NEW c \in ValidCategories["SALES"]
  PROVE  c \in DOMAIN SalesRules /\ Fits(SalesRules[c], "SALES", c) /\ Known(SalesRules[c])
<1>1. c \in {"penjualan_barang_tunai", "penjualan_barang_kredit", "penjualan_jasa_tunai",
             "penjualan_jasa_kredit", "penjualan_dengan_ppn"}
  BY DEF ValidCategories
<1> USE DEF SalesRules, HPP, Fits, In, Beside, MoneyOf, Cash, IsPPNCategory, IsPPNJournalEntry, Known,
    DefaultCOATemplate
<1>2. CASE c = "penjualan_barang_tunai"
  BY <1>2
<1>3. CASE c = "penjualan_barang_kredit"
  BY <1>3
<1>4. CASE c = "penjualan_jasa_tunai"
  BY <1>4
<1>5. CASE c = "penjualan_jasa_kredit"
  BY <1>5
<1>6. CASE c = "penjualan_dengan_ppn"
  BY <1>6
<1> HIDE DEF Fits, Known, SalesRules
<1> QED
  BY <1>1, <1>2, <1>3, <1>4, <1>5, <1>6

LEMMA PurchasesFit ==
  ASSUME NEW c \in ValidCategories["PURCHASE"]
  PROVE  c \in DOMAIN PurchaseRules /\ Fits(PurchaseRules[c], "PURCHASE", c) /\ Known(PurchaseRules[c])
<1>1. c \in {"pembelian_barang_tunai", "pembelian_barang_kredit", "pembelian_jasa_tunai",
             "pembelian_jasa_kredit", "pembelian_dengan_ppn"}
  BY DEF ValidCategories
<1> USE DEF PurchaseRules, Fits, Out, Beside, MoneyOf, Cash, IsPPNCategory, IsPPNJournalEntry, Known,
    DefaultCOATemplate
<1>2. CASE c = "pembelian_barang_tunai"
  BY <1>2
<1>3. CASE c = "pembelian_barang_kredit"
  BY <1>3
<1>4. CASE c = "pembelian_jasa_tunai"
  BY <1>4
<1>5. CASE c = "pembelian_jasa_kredit"
  BY <1>5
<1>6. CASE c = "pembelian_dengan_ppn"
  BY <1>6
<1> HIDE DEF Fits, Known, PurchaseRules
<1> QED
  BY <1>1, <1>2, <1>3, <1>4, <1>5, <1>6

LEMMA SpecialsKnown == \A c \in DOMAIN SpecialRules : Known(SpecialRules[c])
BY DEF SpecialRules, Known, DefaultCOATemplate

\* A category that fits the type has one rule, and its accounts are in the chart.
LEMMA ValidHasRule ==
  ASSUME NEW type, NEW c, IsValidCategoryForType(c, type)
  PROVE  \E rule : GetJournalRule(type, c) = {rule} /\ Fits(rule, type, c) /\ Known(rule)
<1>1. type \in {"CASH_IN", "CASH_OUT", "SALES", "PURCHASE"} /\ c \in ValidCategories[type]
  BY DEF IsValidCategoryForType, ValidCategories
<1>2. CASE type = "CASH_IN"
  <2>1. GetJournalRule(type, c) = {<<CashInRules[c]>>}
    BY <1>1, <1>2, CashInFits DEF GetJournalRule, RulesOf
  <2>2. Fits(<<CashInRules[c]>>, type, c) /\ Known(<<CashInRules[c]>>)
    BY <1>1, <1>2, CashInFits DEF Fits, MoneyOf, Known
  <2> QED
    BY <2>1, <2>2
<1>3. CASE type = "CASH_OUT"
  <2>1. GetJournalRule(type, c) = {<<CashOutRules[c]>>}
    BY <1>1, <1>3, CashOutFits DEF GetJournalRule, RulesOf
  <2>2. Fits(<<CashOutRules[c]>>, type, c) /\ Known(<<CashOutRules[c]>>)
    BY <1>1, <1>3, CashOutFits DEF Fits, MoneyOf, Known
  <2> QED
    BY <2>1, <2>2
<1>4. CASE type = "SALES"
  BY <1>1, <1>4, SalesFit DEF GetJournalRule, RulesOf
<1>5. CASE type = "PURCHASE"
  BY <1>1, <1>5, PurchasesFit DEF GetJournalRule, RulesOf
<1> QED
  BY <1>1, <1>2, <1>3, <1>4, <1>5

\* Whatever the rule, its accounts are in the chart; one that books PPN fits.
LEMMA RulesKnown ==
  ASSUME NEW type \in TransactionTypes, NEW c, NEW rule \in GetJournalRule(type, c)
  PROVE  Known(rule) /\ (IsPPNCategory(c) => IsValidCategoryForType(c, type))
<1>1. CASE IsValidCategoryForType(c, type)
  BY <1>1, ValidHasRule
<1>2. CASE ~IsValidCategoryForType(c, type)
  <2>1. \A t \in DOMAIN RulesOf : DOMAIN RulesOf[t] = ValidCategories[t]
    <3>1. DOMAIN CashInRules = ValidCategories["CASH_IN"]
      BY DEF CashInRules, ValidCategories
    <3>2. DOMAIN CashOutRules = ValidCategories["CASH_OUT"]
      BY DEF CashOutRules, ValidCategories
    <3>3. DOMAIN SalesRules = ValidCategories["SALES"]
      BY DEF SalesRules, ValidCategories
    <3>4. DOMAIN PurchaseRules = ValidCategories["PURCHASE"]
      BY DEF PurchaseRules, ValidCategories
    <3> QED
      BY <3>1, <3>2, <3>3, <3>4 DEF RulesOf
  <2>2. DOMAIN RulesOf = DOMAIN ValidCategories
    BY DEF RulesOf, ValidCategories
  <2>3. c \in DOMAIN SpecialRules /\ rule = SpecialRules[c]
    BY <1>2, <2>1, <2>2 DEF GetJournalRule, IsValidCategoryForType
  <2>4. ~IsPPNCategory(c)
    BY <2>3 DEF SpecialRules, IsPPNCategory
  <2> QED
    BY <2>3, <2>4, SpecialsKnown
<1> QED
  BY <1>1, <1>2

-----------------------------------------------------------------------------
(* Rounding, and what a journal moves.                                     *)

\* The nearest whole is at most half a unit off.
LEMMA NearestIs ==
  ASSUME NEW n \in Nat, NEW d \in Nat \ {0}, NEW up \in BOOLEAN
  PROVE  /\ Nearest(n, d, up) \in Nat
         /\ 2 * (d * Nearest(n, d, up)) <= 2 * n + d
         /\ 2 * n + d - 1 < 2 * (d * Nearest(n, d, up)) + 2 * d
<1> DEFINE m == 2 * n + d - (IF up THEN 0 ELSE 1)
           e == 2 * d
           q == m \div e
<1>1. m \in Nat /\ e \in Nat \ {0} /\ m <= 2 * n + d /\ 2 * n + d - 1 <= m
  OBVIOUS
<1>2. Nearest(n, d, up) = q
  BY DEF Nearest
<1> HIDE DEF m
<1>3. q \in Nat /\ e * q <= m /\ m < e * q + e
  <2> HIDE DEF e
  <2> QED BY <1>1
<1>4. e * q = 2 * (d * q)
  BY <1>3
<1> QED
  BY <1>1, <1>2, <1>3, <1>4

\* Base and tax, each rounded on its own, make the amount to a cent.
LEMMA SplitAddsUp ==
  ASSUME NEW amount \in Nat, NEW rate \in Nat, tie \in [base : BOOLEAN, tax : BOOLEAN]
  PROVE  /\ Base(amount, rate) \in Nat /\ Tax(amount, rate) \in Nat
         /\ Base(amount, rate) + Tax(amount, rate) - amount \in -1..1
<1> DEFINE d == 100 + rate
           b == Base(amount, rate)
           t == Tax(amount, rate)
           x == b + t - amount
<1>1. d \in Nat \ {0} /\ d >= 100 /\ amount * 100 \in Nat /\ amount * rate \in Nat
  OBVIOUS
<1>2. /\ b \in Nat /\ 2 * (d * b) <= 2 * (amount * 100) + d
      /\ 2 * (amount * 100) + d - 1 < 2 * (d * b) + 2 * d
  BY <1>1, NearestIs DEF Base
<1>3. /\ t \in Nat /\ 2 * (d * t) <= 2 * (amount * rate) + d
      /\ 2 * (amount * rate) + d - 1 < 2 * (d * t) + 2 * d
  BY <1>1, NearestIs DEF Tax
<1>4. amount * 100 + amount * rate = d * amount
  OBVIOUS
<1> HIDE DEF b, t
<1>5. d * x = d * b + d * t - d * amount
  BY <1>2, <1>3
<1>6. x \in Int /\ d * x <= d /\ -d - 1 < d * x
  BY <1>1, <1>2, <1>3, <1>4, <1>5
<1> HIDE DEF x, d
<1>7. x <= 1
  <2>1. x >= 2 => d * x >= 2 * d
    BY <1>1, <1>6
  <2> QED
    BY <1>1, <1>6, <2>1
<1>8. x >= -1
  <2>1. x <= -2 => d * x <= -(2 * d)
    BY <1>1, <1>6
  <2> QED
    BY <1>1, <1>6, <2>1
<1> QED
  BY <1>2, <1>3, <1>6, <1>7, <1>8 DEF x, b, t

\* What a line moves on S.
Moves(line, S) ==
  (IF line.debit \in S THEN line.amount ELSE 0) - (IF line.credit \in S THEN line.amount ELSE 0)

\* Moved is such a sum.
LEMMA MovedIs ==
  ASSUME NEW S, IsFiniteSet(DOMAIN lines), NEW w,
         \A i \in DOMAIN lines : w[i] \in Int /\ w[i] = Moves(lines[i], S)
  PROVE  Moved(S) = Total(DOMAIN lines, w)
<1> DEFINE D == DOMAIN lines
           P(g) == g = [s \in SUBSET D |->
             IF s = {} THEN 0 ELSE
               ((IF lines[One(s)].debit \in S THEN lines[One(s)].amount ELSE 0)
                 - (IF lines[One(s)].credit \in S THEN lines[One(s)].amount ELSE 0))
               + g[s \ {One(s)}]]
<1>1. ASSUME NEW s \in SUBSET D, s # {}
      PROVE  w[One(s)] = (IF lines[One(s)].debit \in S THEN lines[One(s)].amount ELSE 0)
                 - (IF lines[One(s)].credit \in S THEN lines[One(s)].amount ELSE 0)
  BY <1>1 DEF One, Moves
<1>2. ASSUME NEW g PROVE P(g) <=> Adds(D, w, g)
  BY <1>1 DEF Adds
<1>3. Moved(S) = (CHOOSE g : P(g))[D]
  BY DEF Moved, One, MapThenSumSet, MapThenFoldSet
<1> HIDE DEF P
<1>4. \E g : Adds(D, w, g)
  BY SumsExist
<1>5. P(CHOOSE g : P(g))
  BY <1>2, <1>4
<1>6. Adds(D, w, CHOOSE g : P(g))
  BY <1>2, <1>5
<1> QED
  BY <1>3, <1>6, AddsToTotal

LEMMA MovedAdds ==
  ASSUME NEW S, \A i \in DOMAIN lines : lines[i].amount \in Int
  PROVE  /\ DOMAIN lines = {} => Moved(S) = 0
         /\ DOMAIN lines = {1} => Moved(S) = Moves(lines[1], S)
         /\ DOMAIN lines = {1, 2} => Moved(S) = Moves(lines[1], S) + Moves(lines[2], S)
<1> DEFINE w == [i \in DOMAIN lines |-> Moves(lines[i], S)]
<1>1. \A i \in DOMAIN lines : w[i] \in Int /\ w[i] = Moves(lines[i], S)
  BY DEF Moves
<1> HIDE DEF w
<1>2. IsFiniteSet({1}) /\ IsFiniteSet({2}) /\ IsFiniteSet({1, 2})
  <2>1. {1, 2} = {1} \cup {2}
    OBVIOUS
  <2>2. IsFiniteSet({1}) /\ IsFiniteSet({2})
    BY FS_Singleton
  <2>3. IsFiniteSet({1} \cup {2})
    BY <2>2, FS_AddElement
  <2> QED
    BY <2>1, <2>2, <2>3
<1>3. CASE DOMAIN lines = {}
  BY <1>1, <1>3, FS_EmptySet, MovedIs, TotalStep
<1>4. CASE DOMAIN lines = {1}
  <2>1. Moved(S) = Total({1}, w)
    BY <1>1, <1>2, <1>4, MovedIs
  <2>2. Total({1}, w) = w[1]
    BY <1>1, <1>2, <1>4, TotalOne
  <2> QED
    BY <1>1, <1>4, <2>1, <2>2
<1>5. CASE DOMAIN lines = {1, 2}
  <2>1. Moved(S) = Total({1, 2}, w)
    BY <1>1, <1>2, <1>5, MovedIs
  <2>2. Total({1, 2}, w) = w[1] + Total({1, 2} \ {1}, w)
    BY <1>1, <1>2, <1>5, TotalWithout
  <2>3. {1, 2} \ {1} = {2}
    OBVIOUS
  <2>4. Total({2}, w) = w[2]
    BY <1>1, <1>2, <1>5, TotalOne
  <2> QED
    BY <1>1, <1>5, <2>1, <2>2, <2>3, <2>4
<1> QED
  BY <1>3, <1>4, <1>5

-----------------------------------------------------------------------------
(* One request.                                                            *)

\* What is written is what the request asks for, at the rate of the moment it
\* was written, which is the rate of now unless the profile was changed since.
JournalsInv ==
  /\ tie \in [base : BOOLEAN, tax : BOOLEAN]
  /\ ppnRate \in Nat /\ rates \in Nat /\ since \in Nat /\ since <= rates
  /\ request.type \in TransactionTypes /\ request.amount \in Nat
  /\ request.mode \in {"SIMPLE", "ADVANCED"}
  /\ stage \in {"taxed", "booked", "calculated"} =>
       /\ request.mode = "SIMPLE" /\ request.type # "JOURNAL" =>
            IsValidCategoryForType(request.category, request.type)
       /\ rates = since => taxAmount = IF NeedsTaxSplit(request)
                                       THEN Tax(request.amount, Effective(ppnRate)) ELSE 0
  /\ stage \in {"booked", "calculated"} /\ request.type # "JOURNAL" =>
       \E rule \in GetJournalRule(request.type, request.category), rate \in Nat :
         /\ lines = AutoJournalEntries(rule, request, rate)
         /\ rates = since => rate = Effective(ppnRate)
  /\ stage = "calculated" /\ rates = since => \A p \in ppn : p.amount = taxAmount
  /\ AcceptedIsBooked

\* Before the request, or when there is none.
LEMMA JournalsInitInv ==
  ASSUME tie \in [base : BOOLEAN, tax : BOOLEAN], ppnRate = 0, rates \in Nat, request = NoRequest,
         since = 0, taxAmount = 0, lines = <<>>, ppn = {}, stage \in {"none", "calculated"}
  PROVE  JournalsInv
<1>1. /\ request.type = "JOURNAL" /\ request.amount \in Nat /\ request.mode = "SIMPLE"
      /\ ~NeedsTaxSplit(request)
  BY DEF NoRequest, NeedsTaxSplit, IsPPNCategory
<1>2. "JOURNAL" \in TransactionTypes
  BY DEF TransactionTypes
<1> QED
  BY <1>1, <1>2 DEF JournalsInv, AcceptedIsBooked

LEMMA SetRatesKeeps ==
  ASSUME JournalsInv, SetRates PROVE JournalsInv'
<1> USE DEF JournalsInv, SetRates
<1>1. ppnRate' \in Nat
  <2>1. PICK asked \in AskedRates, up \in BOOLEAN :
          ppnRate' = IF asked = 0 THEN 11 ELSE Nearest(asked, 10, up)
    OBVIOUS
  <2>2. asked \in Nat
    BY JournalsAssumption DEF JournalsAssumption
  <2>3. CASE asked = 0
    BY <2>1, <2>3
  <2>4. CASE asked # 0
    BY <2>1, <2>2, <2>4, NearestIs
  <2> QED
    BY <2>3, <2>4
<1>2. rates' \in Nat /\ since' \in Nat /\ since' <= rates' /\ rates' # since'
  OBVIOUS
<1>3. UNCHANGED <<tie, request, stage, since, taxAmount, lines, ppn>>
  OBVIOUS
<1>4. AcceptedIsBooked'
  BY <1>3 DEF AcceptedIsBooked
<1>5. \A rule, rate : AutoJournalEntries(rule, request, rate)' = AutoJournalEntries(rule, request, rate)
  BY <1>3 DEF AutoJournalEntries, Base, Tax
<1>6. stage' \in {"booked", "calculated"} /\ request'.type # "JOURNAL" =>
       \E rule \in GetJournalRule(request.type, request.category), rate \in Nat :
         lines = AutoJournalEntries(rule, request, rate)
  BY <1>3
<1> QED
  BY <1>1, <1>2, <1>3, <1>4, <1>5, <1>6

LEMMA AskTransactionKeeps ==
  ASSUME JournalsInv, stage = "none",
         NEW type \in TransactionTypes, NEW c, NEW amount \in Amounts,
         NEW includesTax \in BOOLEAN, NEW mode \in {"SIMPLE", "ADVANCED"},
         AskTransaction(type, c, amount, includesTax, mode)
  PROVE  JournalsInv'
<1>1. UNCHANGED <<ppnRate, liable, rates, tie, lines, ppn>> /\ amount \in Nat
  BY JournalsAssumption DEF AskTransaction, JournalsAssumption
<1>2. PICK k : LET r == [type |-> type, category |-> k, amount |-> amount,
                         includesTax |-> includesTax, mode |-> mode]
               IN IF mode = "SIMPLE" /\ type # "JOURNAL" /\ ~IsValidCategoryForType(k, type)
                  THEN Refuse("category")
                  ELSE /\ request' = r
                       /\ stage' = "taxed"
                       /\ since' = rates
                       /\ taxAmount' = IF NeedsTaxSplit(r) THEN Tax(amount, Effective(ppnRate)) ELSE 0
  BY DEF AskTransaction
<1>3. CASE Refuse("category")
  BY <1>1, <1>3 DEF Refuse, JournalsInv, AcceptedIsBooked
<1>4. CASE /\ request' = [type |-> type, category |-> k, amount |-> amount,
                         includesTax |-> includesTax, mode |-> mode]
           /\ mode = "SIMPLE" /\ type # "JOURNAL" => IsValidCategoryForType(k, type)
           /\ stage' = "taxed" /\ since' = rates
           /\ taxAmount' = IF NeedsTaxSplit(request') THEN Tax(amount, Effective(ppnRate)) ELSE 0
  <2>1. /\ request'.type = type /\ request'.category = k /\ request'.amount = amount
        /\ request'.mode = mode
    BY <1>4
  <2>2. Tax(request.amount, Effective(ppnRate))' = Tax(amount, Effective(ppnRate))
    BY <1>1, <2>1 DEF Tax, Effective
  <2>3. NeedsTaxSplit(request)' <=> NeedsTaxSplit(request')
    OBVIOUS
  <2>4. taxAmount' = IF NeedsTaxSplit(request)' THEN Tax(request.amount, Effective(ppnRate))' ELSE 0
    BY <1>4, <2>2, <2>3
  <2>5. AcceptedIsBooked' /\ stage' = "taxed"
    BY <1>4 DEF AcceptedIsBooked
  <2>6. since' \in Nat /\ since' <= rates'
    <3>1. rates \in Nat
      BY DEF JournalsInv
    <3>2. since' = rates
      BY <1>4
    <3> QED
      BY <1>1, <3>1, <3>2
  <2>7. request'.mode = "SIMPLE" /\ request'.type # "JOURNAL" =>
            IsValidCategoryForType(request'.category, request'.type)
    BY <1>4, <2>1
  <2> QED
    BY <1>1, <2>1, <2>4, <2>5, <2>6, <2>7 DEF JournalsInv
<1> QED
  BY <1>2, <1>3, <1>4

LEMMA BookTransactionKeeps ==
  ASSUME JournalsInv, BookTransaction PROVE JournalsInv'
<1>1. /\ stage = "taxed" /\ UNCHANGED <<ppnRate, liable, rates, tie, request, since, taxAmount, ppn>>
      /\ stage' \in {"booked", "rule", "account"}
  BY DEF BookTransaction
<1>2. request.type \in TransactionTypes /\ Effective(ppnRate) \in Nat
  BY DEF JournalsInv, Effective
<1>3. CASE stage' = "booked" /\ request.type = "JOURNAL"
  BY <1>1, <1>3 DEF JournalsInv, AcceptedIsBooked, Tax, Effective
<1>4. CASE GetJournalRule(request.type, request.category) = {} /\ stage' = "rule" /\ request.type # "JOURNAL"
  <2>1. ~IsValidCategoryForType(request.category, request.type)
    BY <1>4, ValidHasRule
  <2>2. request.mode # "SIMPLE"
    BY <1>1, <1>4, <2>1 DEF JournalsInv
  <2>3. request.mode = "ADVANCED"
    BY <2>2 DEF JournalsInv
  <2> QED
    BY <1>1, <1>4, <2>3 DEF JournalsInv, AcceptedIsBooked
<1>5. ASSUME NEW rule \in GetJournalRule(request.type, request.category), request.type # "JOURNAL",
             IF Known(rule)
             THEN stage' = "booked" /\ lines' = AutoJournalEntries(rule, request, Effective(ppnRate))
             ELSE stage' = "account" /\ UNCHANGED lines
      PROVE  JournalsInv'
  <2>1. Known(rule)
    BY <1>2, RulesKnown
  <2>2. stage' = "booked" /\ lines' = AutoJournalEntries(rule, request, Effective(ppnRate))
    BY <1>5, <2>1
  <2>3. AutoJournalEntries(rule, request, Effective(ppnRate))' =
          AutoJournalEntries(rule, request, Effective(ppnRate))
    BY <1>1 DEF AutoJournalEntries, Base, Tax, Effective
  <2>4. Effective(ppnRate)' = Effective(ppnRate)
    BY <1>1 DEF Effective
  <2>5. (\E r \in GetJournalRule(request.type, request.category), rate \in Nat :
           /\ lines = AutoJournalEntries(r, request, rate)
           /\ rates = since => rate = Effective(ppnRate))'
    BY <1>1, <1>2, <2>2, <2>3, <2>4
  <2>6. Tax(request.amount, Effective(ppnRate))' = Tax(request.amount, Effective(ppnRate))
    BY <1>1 DEF Tax, Effective
  <2> QED
    BY <1>1, <2>2, <2>5, <2>6 DEF JournalsInv, AcceptedIsBooked
<1> QED
  BY <1>1, <1>3, <1>4, <1>5 DEF BookTransaction, Known

LEMMA CalculatePPNKeeps ==
  ASSUME JournalsInv, CalculatePPN PROVE JournalsInv'
<1>1. /\ stage = "booked" /\ stage' = "calculated"
      /\ UNCHANGED <<ppnRate, liable, rates, tie, request, since, taxAmount, lines>>
  BY DEF CalculatePPN
<1>2. \A p \in ppn' : NeedsTaxSplit(request) /\ p.amount = Tax(request.amount, Effective(ppnRate))
  BY DEF CalculatePPN, ComputePPN
<1>3. rates = since => \A p \in ppn' : p.amount = taxAmount
  BY <1>1, <1>2 DEF JournalsInv
<1>4. Tax(request.amount, Effective(ppnRate))' = Tax(request.amount, Effective(ppnRate))
  BY <1>1 DEF Tax, Effective
<1>5. \A rule, rate : AutoJournalEntries(rule, request, rate)' = AutoJournalEntries(rule, request, rate)
  BY <1>1 DEF AutoJournalEntries, Base, Tax
<1> QED
  BY <1>1, <1>3, <1>4, <1>5 DEF JournalsInv, AcceptedIsBooked

\* The lines of a rule.
LEMMA LinesOf ==
  ASSUME NEW rule, NEW rate \in Nat, lines = AutoJournalEntries(rule, request, rate),
         request.amount \in Nat, tie \in [base : BOOLEAN, tax : BOOLEAN]
  PROVE  /\ DOMAIN lines = DOMAIN rule
         /\ \A i \in DOMAIN rule : lines[i].amount \in Int
         /\ \A i \in DOMAIN rule : \A S :
              /\ In(rule[i], S) => Moves(lines[i], S) = lines[i].amount
              /\ Out(rule[i], S) => Moves(lines[i], S) = -lines[i].amount
              /\ Beside(rule[i], S) => Moves(lines[i], S) = 0
         /\ 1 \in DOMAIN rule => lines[1].amount = IF NeedsTaxSplit(request)
                                                  THEN Base(request.amount, rate) ELSE request.amount
         /\ 2 \in DOMAIN rule /\ IsPPNJournalEntry(rule[2]) /\ NeedsTaxSplit(request) =>
              lines[2].amount = Tax(request.amount, rate)
<1> DEFINE base == IF NeedsTaxSplit(request) THEN Base(request.amount, rate) ELSE request.amount
           of(i) == IF i > 1 /\ NeedsTaxSplit(request) /\ IsPPNJournalEntry(rule[i])
                    THEN Tax(request.amount, rate) ELSE base
<1>1. base \in Int /\ Tax(request.amount, rate) \in Int
  <2>1. Base(request.amount, rate) \in Nat /\ Tax(request.amount, rate) \in Nat
    BY SplitAddsUp
  <2> QED
    BY <2>1
<1>2. DOMAIN lines = DOMAIN rule
  BY DEF AutoJournalEntries
<1>3. ASSUME NEW i \in DOMAIN rule
      PROVE  lines[i].debit = rule[i][1] /\ lines[i].credit = rule[i][2] /\ lines[i].amount = of(i)
  BY <1>3 DEF AutoJournalEntries, Entry
<1> HIDE DEF base
<1>4. \A i \in DOMAIN rule : lines[i].amount \in Int
  BY <1>1, <1>3
<1>5. ASSUME NEW i \in DOMAIN rule, NEW S
      PROVE  /\ In(rule[i], S) => Moves(lines[i], S) = lines[i].amount
             /\ Out(rule[i], S) => Moves(lines[i], S) = -lines[i].amount
             /\ Beside(rule[i], S) => Moves(lines[i], S) = 0
  BY <1>3, <1>4 DEF Moves, In, Out, Beside
<1>6. 1 \in DOMAIN rule => lines[1].amount = base
  BY <1>3
<1>7. 2 \in DOMAIN rule /\ IsPPNJournalEntry(rule[2]) /\ NeedsTaxSplit(request) =>
              lines[2].amount = Tax(request.amount, rate)
  BY <1>3
<1> QED
  BY <1>2, <1>4, <1>5, <1>6, <1>7 DEF base

\* Base and tax together make up the amount.
LEMMA BooksTheAmount ==
  ASSUME JournalsInv PROVE AmountIsBooked
<1> SUFFICES ASSUME stage \in {"booked", "calculated"},
                    IsValidCategoryForType(request.category, request.type)
             PROVE  AmountIsBooked
  BY DEF AmountIsBooked
<1>1. request.type \in {"CASH_IN", "CASH_OUT", "SALES", "PURCHASE"}
  BY DEF IsValidCategoryForType, ValidCategories
<1>2. PICK rule : /\ GetJournalRule(request.type, request.category) = {rule}
                  /\ Fits(rule, request.type, request.category)
  BY ValidHasRule
<1>3. PICK rate \in Nat : /\ lines = AutoJournalEntries(rule, request, rate)
                          /\ rates = since => rate = Effective(ppnRate)
  BY <1>1, <1>2 DEF JournalsInv
<1>4. request.amount \in Nat /\ tie \in [base : BOOLEAN, tax : BOOLEAN]
  BY DEF JournalsInv
<1> DEFINE amount == request.amount
           M == MoneyOf(request.type)
           in == request.type \in {"CASH_IN", "SALES"}
           money == IF in THEN Moved(M) ELSE -Moved(M)
<1>5. ASSUME IF request.includesTax /\ ~IsPPNCategory(request.category)
             THEN rates = since => money + taxAmount - amount \in -1..1
             ELSE money - amount \in -1..1
      PROVE  AmountIsBooked
  <2>1. CASE request.type = "CASH_IN"
    BY <1>5, <2>1 DEF MoneyOf, AmountIsBooked, Cash
  <2>2. CASE request.type = "CASH_OUT"
    BY <1>5, <2>2 DEF MoneyOf, AmountIsBooked, Cash
  <2>3. CASE request.type = "SALES"
    BY <1>5, <2>3 DEF MoneyOf, AmountIsBooked, Cash
  <2>4. CASE request.type = "PURCHASE"
    BY <1>5, <2>4 DEF MoneyOf, AmountIsBooked, Cash
  <2> QED
    BY <1>1, <2>1, <2>2, <2>3, <2>4
<1>6. /\ Base(amount, rate) \in Nat /\ Tax(amount, rate) \in Nat
      /\ Base(amount, rate) + Tax(amount, rate) - amount \in -1..1
  BY <1>4, SplitAddsUp
<1>7. 1 \in DOMAIN rule
  BY <1>2 DEF Fits
<1>8. lines[1].amount = IF NeedsTaxSplit(request) THEN Base(amount, rate) ELSE amount
  BY <1>3, <1>4, <1>7, LinesOf
<1>9. CASE ~IsPPNCategory(request.category)
  <2>1. money = lines[1].amount
    <3>1. \/ DOMAIN lines = {1}
          \/ DOMAIN lines = {1, 2} /\ Moves(lines[2], M) = 0
      BY <1>2, <1>3, <1>4, <1>9, LinesOf DEF Fits
    <3>2. Moves(lines[1], M) = IF in THEN lines[1].amount ELSE -lines[1].amount
      BY <1>2, <1>3, <1>4, <1>7, LinesOf DEF Fits
    <3>3. \A i \in DOMAIN lines : lines[i].amount \in Int
      BY <1>3, <1>4, LinesOf
    <3>4. Moved(M) = Moves(lines[1], M)
      <4>1. Moves(lines[1], M) \in Int
        BY <1>3, <1>4, <1>7, <3>2, LinesOf
      <4> QED
        BY <3>1, <3>3, <4>1, MovedAdds
    <3> QED
      BY <3>1, <3>2, <3>3, <3>4
  <2>2. CASE request.includesTax
    <3>1. money = Base(amount, rate) /\ NeedsTaxSplit(request)
      BY <1>8, <2>1, <2>2 DEF NeedsTaxSplit
    <3>2. rates = since => taxAmount = Tax(amount, rate)
      BY <1>3, <3>1 DEF JournalsInv
    <3>3. rates = since => money + taxAmount - amount \in -1..1
      BY <1>6, <3>1, <3>2
    <3> QED
      BY <1>5, <1>9, <2>2, <3>3
  <2>3. CASE ~request.includesTax
    <3>1. money = amount
      BY <1>8, <1>9, <2>1, <2>3 DEF NeedsTaxSplit
    <3>2. money - amount \in -1..1
      BY <1>4, <3>1
    <3> QED
      BY <1>5, <2>3, <3>2
  <2> QED
    BY <2>2, <2>3
<1>10. CASE IsPPNCategory(request.category)
  <2>1. /\ DOMAIN rule = {1, 2} /\ IsPPNJournalEntry(rule[2]) /\ NeedsTaxSplit(request)
        /\ IF in THEN In(rule[1], M) /\ In(rule[2], M) ELSE Out(rule[1], M) /\ Out(rule[2], M)
    BY <1>2, <1>10 DEF Fits, NeedsTaxSplit
  <2>2. DOMAIN lines = {1, 2} /\ \A i \in DOMAIN lines : lines[i].amount \in Int
    BY <1>3, <1>4, <2>1, LinesOf
  <2>3. lines[1].amount = Base(amount, rate) /\ lines[2].amount = Tax(amount, rate)
    BY <1>3, <1>4, <2>1, LinesOf
  <2>4. /\ Moves(lines[1], M) = IF in THEN lines[1].amount ELSE -lines[1].amount
        /\ Moves(lines[2], M) = IF in THEN lines[2].amount ELSE -lines[2].amount
    BY <1>3, <1>4, <2>1, LinesOf
  <2>5. Moved(M) = Moves(lines[1], M) + Moves(lines[2], M)
    BY <2>2, MovedAdds
  <2>6. money = Base(amount, rate) + Tax(amount, rate)
    BY <1>6, <2>3, <2>4, <2>5
  <2>7. money - amount \in -1..1
    BY <1>4, <1>6, <2>6
  <2> QED
    BY <1>5, <1>10, <2>7
<1> QED
  BY <1>9, <1>10

\* The additional entry of a PPN category is the tax of the row.
LEMMA TaxesAgree ==
  ASSUME JournalsInv PROVE TaxAgrees
<1>1. ASSUME stage \in {"booked", "calculated"}, rates = since,
             IsPPNCategory(request.category), request.type # "JOURNAL"
      PROVE  Moved({"1-1008"}) - Moved({"2-1005"}) = taxAmount
  <2>1. PICK rule \in GetJournalRule(request.type, request.category), rate \in Nat :
          lines = AutoJournalEntries(rule, request, rate) /\ rate = Effective(ppnRate)
    BY <1>1 DEF JournalsInv
  <2>2. IsValidCategoryForType(request.category, request.type)
    BY <1>1, <2>1, RulesKnown DEF JournalsInv
  <2>3. Fits(rule, request.type, request.category)
    BY <2>1, <2>2, ValidHasRule
  <2>4. /\ DOMAIN rule = {1, 2} /\ IsPPNJournalEntry(rule[2]) /\ NeedsTaxSplit(request)
        /\ Beside(rule[1], {"1-1008", "2-1005"})
    BY <1>1, <2>3 DEF Fits, NeedsTaxSplit
  <2>5. request.amount \in Nat /\ tie \in [base : BOOLEAN, tax : BOOLEAN]
    BY DEF JournalsInv
  <2>6. /\ DOMAIN lines = {1, 2} /\ \A i \in DOMAIN lines : lines[i].amount \in Int
        /\ lines[2].amount = Tax(request.amount, rate)
    BY <2>1, <2>4, <2>5, LinesOf
  <2>7. Moves(lines[1], {"1-1008"}) = 0 /\ Moves(lines[1], {"2-1005"}) = 0
    <3>1. Beside(rule[1], {"1-1008"}) /\ Beside(rule[1], {"2-1005"})
      BY <2>4 DEF Beside
    <3> QED
      BY <2>1, <2>4, <2>5, <3>1, LinesOf
  <2>8. Moves(lines[2], {"1-1008"}) - Moves(lines[2], {"2-1005"}) = lines[2].amount
    <3>1. \/ In(rule[2], {"1-1008"}) /\ Beside(rule[2], {"2-1005"})
          \/ Beside(rule[2], {"1-1008"}) /\ Out(rule[2], {"2-1005"})
      BY <2>4 DEF IsPPNJournalEntry, In, Out, Beside
    <3>2. \/ Moves(lines[2], {"1-1008"}) = lines[2].amount /\ Moves(lines[2], {"2-1005"}) = 0
          \/ Moves(lines[2], {"1-1008"}) = 0 /\ Moves(lines[2], {"2-1005"}) = -lines[2].amount
      BY <2>1, <2>4, <2>5, <3>1, LinesOf
    <3> QED
      BY <2>6, <3>2
  <2>9. /\ Moved({"1-1008"}) = Moves(lines[1], {"1-1008"}) + Moves(lines[2], {"1-1008"})
        /\ Moved({"2-1005"}) = Moves(lines[1], {"2-1005"}) + Moves(lines[2], {"2-1005"})
    BY <2>6, MovedAdds
  <2>10. \A S : Moves(lines[2], S) \in Int
    BY <2>6 DEF Moves
  <2>11. taxAmount = Tax(request.amount, rate)
    BY <1>1, <2>1, <2>4 DEF JournalsInv
  <2> QED
    BY <2>6, <2>7, <2>8, <2>9, <2>10, <2>11
<1> QED
  BY <1>1 DEF JournalsInv, TaxAgrees

LEMMA JournalsStep == JournalsInv /\ [JournalsNext]_journalVars => JournalsInv'
<1> SUFFICES ASSUME JournalsInv, [JournalsNext]_journalVars PROVE JournalsInv'
  OBVIOUS
<1>1. CASE UNCHANGED journalVars
  <2>1. UNCHANGED <<ppnRate, rates, tie, request, stage, since, taxAmount, lines, ppn>>
    BY <1>1 DEF journalVars
  <2>2. \A rule, rate : AutoJournalEntries(rule, request, rate)' = AutoJournalEntries(rule, request, rate)
    BY <2>1 DEF AutoJournalEntries, Base, Tax
  <2>3. Tax(request.amount, Effective(ppnRate))' = Tax(request.amount, Effective(ppnRate))
    BY <2>1 DEF Tax, Effective
  <2> QED
    BY <2>1, <2>2, <2>3 DEF JournalsInv, AcceptedIsBooked
<1>2. CASE SetRates
  BY <1>2, SetRatesKeeps
<1>3. CASE BookTransaction
  BY <1>3, BookTransactionKeeps
<1>4. CASE CalculatePPN
  BY <1>4, CalculatePPNKeeps
<1>5. ASSUME stage = "none",
             NEW type \in TransactionTypes, NEW c, NEW amount \in Amounts,
             NEW includesTax \in BOOLEAN, NEW mode \in {"SIMPLE", "ADVANCED"},
             AskTransaction(type, c, amount, includesTax, mode)
      PROVE  JournalsInv'
  BY <1>5, AskTransactionKeeps
<1>6. CASE /\ stage = "none"
           /\ \E type \in TransactionTypes, c \in Categories \cup {""}, amount \in Amounts,
                 includesTax \in BOOLEAN, mode \in {"SIMPLE", "ADVANCED"} :
                AskTransaction(type, c, amount, includesTax, mode)
  BY <1>5, <1>6, ZenonT(60)
<1> QED
  BY <1>1, <1>2, <1>3, <1>4, <1>6, Zenon DEF JournalsNext

LEMMA BooksAsAsked == JournalsInv => BookedAsAsked
BY BooksTheAmount, TaxesAgree DEF JournalsInv, BookedAsAsked

\* What a request asks for is booked, under a rule whose accounts are in the
\* chart, to the cent, and taxed alike by the row, the journal and the tax
\* report, for any amount and any rate (internal/accounting/rules.go,
\* service.go CreateTransaction, internal/tax/calculator.go).
THEOREM BookingsAsAsked == MCSpec \/ AtOnce \/ JournalsSpec => []BookedAsAsked
<1>1. NoJournal \/ JournalsInit => JournalsInv
  <2>1. MaxRates \in Nat
    BY JournalsAssumption DEF JournalsAssumption
  <2>2. NoJournal => JournalsInv
    BY <2>1, JournalsInitInv DEF NoJournal
  <2>3. JournalsInit => JournalsInv
    BY JournalsInitInv DEF JournalsInit
  <2> QED
    BY <2>2, <2>3
<1>2. [AllSteps]_AllButClaims => [JournalsNext]_journalVars
  BY DEF AllSteps, AllButClaims, Books
<1>3. (NoJournal \/ JournalsInit) /\ [][JournalsNext]_journalVars => []JournalsInv
  BY <1>1, JournalsStep, PTL
<1>4. Init \/ Together => NoJournal \/ JournalsInit
  BY DEF Init, NewRequest, Together
<1> QED
  BY <1>2, <1>3, <1>4, ExploredSteps, BooksAsAsked, PTL DEF MCSpec, AtOnce, JournalsSpec
=============================================================================
