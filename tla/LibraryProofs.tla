--------------------------- MODULE LibraryProofs ----------------------------
(***************************************************************************)
(* Proofs about Library, for any tree of three levels, any servers and any *)
(* number of scans, webhooks and toggles.  IInv is the inductive invariant: *)
(* every stored flag says what one of its last toggles said, every node    *)
(* without one inherits what its parent's last toggles said.               *)
(***************************************************************************)
EXTENDS Library, TLAPS

------------------------------------------------------------------------------
(* The inductive invariant.                                                *)

\* What an Arr server holds has its ancestors in it.
CatalogInv ==
    \A s \in Server : \A k \in catalog[s] : Line(k) \subseteq catalog[s]

FetchedWork == [at : {"fetched"}, nodes : SUBSET Node]
ReadWork ==
    [at : {"read"}, nodes : SUBSET Node, known : SUBSET Node, shown : SUBSET Node]
ToggleWork ==
    [at : {"read"}, nodes : SUBSET Node, value : BOOLEAN,
     known : SUBSET Node, set : SUBSET Node]

\* What a scan or a webhook has fetched is closed under parents, and the rows
\* it has read are still there.
WorkInv ==
    /\ work \in [Thread -> {Idle} \cup FetchedWork \cup ReadWork \cup ToggleWork]
    /\ \A p \in Scanner \cup Hook :
         \/ work[p] = Idle
         \/ /\ work[p] \in FetchedWork \cup ReadWork
            /\ \A k \in work[p].nodes : Line(k) \subseteq work[p].nodes
            /\ work[p].at = "read" => /\ work[p].shown \subseteq work[p].known
                                      /\ work[p].known \subseteq Exists(row)

\* A toggle's view of the rows: only other toggles write a flag, and rows that
\* came since then have none of their own.
Viewed(p) ==
    LET r == work[p] IN
    \/ r = Idle
    \/ /\ r \in ToggleWork
       /\ r.nodes \subseteq r.known /\ r.known \subseteq Exists(row)
       /\ \A k \in r.set : row[k] # Absent /\ row[k].override # Null
       /\ \A k \in r.known \ overtaken[p] : k \in r.set <=> row[k].override = r.value
       /\ \A k \in Exists(row) \ (r.known \cup overtaken[p]) : row[k].override = Null

\* What toggles write, they write to all that is below as well.
ToggleInv ==
    \A p \in Toggler : Viewed(p) /\ Below(overtaken[p]) \subseteq overtaken[p]

Inherited(k) == IF Parent[k] = Null THEN {DefaultTracked} ELSE want[Parent[k]]

WantInv ==
    \A k \in Node :
      IF row[k] # Absent /\ row[k].override # Null
      THEN row[k].override \in want[k]
      ELSE Inherited(k) \subseteq want[k]

IInv == TypeOK /\ CatalogInv /\ WorkInv /\ ToggleInv /\ WantInv

\* What scans and webhooks do to the rows: none goes, a new one has no flag,
\* and no flag changes.
RowsKept ==
    \A k \in Node :
      /\ row[k] # Absent => /\ row'[k] \in Rows
                            /\ row'[k].override = row[k].override
      /\ row[k] = Absent => row'[k] \in {Absent, Fresh}

------------------------------------------------------------------------------
(* The tree.                                                               *)

LEMMA AbsentIsNoRow == Absent \notin Rows
BY DEF Absent, Rows

LEMMA FreshIsARow == Fresh \in Rows /\ Fresh # Absent /\ Fresh.override = Null
BY DEF Absent, Rows, Fresh

\* The ancestors of an ancestor are ancestors.
LEMMA LineTransitive ==
    ASSUME NEW k \in Node, NEW n \in Line(k)
    PROVE  n \in Node /\ Line(n) \subseteq Line(k)
<1>1. /\ k # Null
      /\ Up(k) \in Node \cup {Null} /\ Up(Up(k)) \in Node \cup {Null}
      /\ Up(Up(Up(k))) = Null /\ Up(Null) = Null
  BY DepthAssumption, LibraryAssumption DEF Up
<1>2. QED
  BY <1>1 DEF Line

\* A line is the node and its parent's line.
LEMMA LineStep ==
    ASSUME NEW k \in Node
    PROVE  /\ k \in Line(k)
           /\ Parent[k] # Null => Parent[k] \in Node /\ Line(k) = {k} \cup Line(Parent[k])
           /\ Parent[k] = Null => Line(k) = {k}
<1>1. /\ k # Null
      /\ Up(k) = Parent[k] /\ Parent[k] \in Node \cup {Null}
      /\ Up(Up(k)) \in Node \cup {Null}
      /\ Up(Up(Up(k))) = Null /\ Up(Null) = Null
  BY DepthAssumption, LibraryAssumption DEF Up
<1>2. QED
  BY <1>1 DEF Line

------------------------------------------------------------------------------
(* The rows.                                                               *)

LEMMA WritersKeepRows ==
    ASSUME IInv, NEW p \in Scanner \cup Hook, SyncLibrary(p) \/ UpsertLeaf(p)
    PROVE  RowsKept
<1> DEFINE w == work[p]
<1>1. /\ w.nodes \subseteq Node /\ w.shown \subseteq w.known /\ w.known \subseteq Exists(row)
      /\ w.at = "read" /\ ~Conflict(p)
  BY DEF IInv, WorkInv, SyncLibrary, UpsertLeaf, Idle, FetchedWork, ReadWork
<1> SUFFICES ASSUME NEW k \in Node
             PROVE  /\ row[k] # Absent => row'[k] \in Rows /\ row'[k].override = row[k].override
                    /\ row[k] = Absent => row'[k] \in {Absent, Fresh}
  BY DEF RowsKept
<1>2. row'[k] \in {Upserted(p, k), SoftHidden(p, k), row[k]}
  BY DEF SyncLibrary, UpsertLeaf
<1>3. row[k] # Absent => row[k] \in Rows
  BY DEF IInv, TypeOK
<1>4. CASE row[k] = Absent
  <2>1. k \notin w.known /\ k \notin w.shown
    BY <1>1, <1>4 DEF Exists
  <2>2. QED
    BY <1>2, <1>4, <2>1 DEF Upserted, SoftHidden
<1>5. CASE row[k] # Absent
  <2>1. k \in w.nodes => k \in w.known
    BY <1>1, <1>5 DEF Conflict, Exists
  <2>2. row'[k] \in {row[k], [row[k] EXCEPT !.hidden = FALSE], [row[k] EXCEPT !.hidden = TRUE]}
    BY <2>1 DEF SyncLibrary, UpsertLeaf, Upserted, SoftHidden
  <2>3. QED
    BY <1>3, <1>5, <2>2 DEF Rows
<1>6. QED
  BY <1>4, <1>5

LEMMA RowsKeptExist ==
    ASSUME RowsKept
    PROVE  Exists(row) \subseteq Exists(row')
BY AbsentIsNoRow DEF RowsKept, Exists

------------------------------------------------------------------------------
(* Each part of the invariant.                                             *)

LEMMA InitInv == Init => IInv
<1> SUFFICES ASSUME Init PROVE IInv
  OBVIOUS
<1>1. TypeOK
  BY LibraryAssumption DEF Init, TypeOK, Exists, Thread
<1>2. CatalogInv
  BY DEF Init, CatalogInv
<1>3. WorkInv
  BY DEF Init, WorkInv, Thread
<1>4. ToggleInv
  BY DEF Init, ToggleInv, Viewed, Thread, Below
<1>5. WantInv
  BY LibraryAssumption DEF Init, WantInv, Inherited
<1>6. QED
  BY <1>1, <1>2, <1>3, <1>4, <1>5 DEF IInv

\* The catalogs change at the Arr servers only.
LEMMA CatalogStep == IInv /\ [Next]_vars => CatalogInv'
<1> SUFFICES ASSUME IInv, [Next]_vars PROVE CatalogInv'
  OBVIOUS
<1>1. ASSUME NEW s \in Server, NEW k \in Node, Import(s, k) PROVE CatalogInv'
  <2> SUFFICES ASSUME NEW t \in Server, NEW n \in catalog'[t], NEW m \in Line(n)
               PROVE  m \in catalog'[t]
    BY DEF CatalogInv
  <2>1. catalog'[t] = catalog[t] \cup Line(k) \/ (t # s /\ catalog'[t] = catalog[t])
    BY <1>1 DEF Import, IInv, TypeOK
  <2>2. n \in Line(k) => m \in Line(k)
    BY LineTransitive
  <2>3. QED
    BY <2>1, <2>2 DEF IInv, CatalogInv
<1>2. ASSUME NEW s \in Server, NEW k \in Node, Remove(s, k) PROVE CatalogInv'
  <2> SUFFICES ASSUME NEW t \in Server, NEW n \in catalog'[t], NEW m \in Line(n)
               PROVE  m \in catalog'[t]
    BY DEF CatalogInv
  <2>1. catalog'[t] = catalog[t] \ Below({k}) \/ (t # s /\ catalog'[t] = catalog[t])
    BY <1>2 DEF Remove, IInv, TypeOK
  <2>2. n \in Node /\ m \in catalog[t]
    BY <2>1 DEF IInv, CatalogInv, TypeOK
  <2>3. m \in Below({k}) => n \in Below({k})
    BY <2>2, LineTransitive DEF Below
  <2>4. QED
    BY <2>1, <2>2, <2>3
<1>3. CASE UNCHANGED catalog
  BY <1>3 DEF IInv, CatalogInv
<1>4. QED
  BY <1>1, <1>2, <1>3
     DEF Next, vars, outside, CreateInstance, DeleteInstance, ScanStep, HookStep,
         FetchCatalog, ListNodes, SyncLibrary, IntegrityError, UpsertLeaf,
         ServeWebhook, StartToggle, SetTracked, history

\* The rows change in three ways only: kept as above, toggled, or not at all.
LEMMA RowStep ==
    ASSUME IInv, [Next]_vars
    PROVE  RowsKept \/ \E p \in Toggler : SetTracked(p)
<1>1. CASE UNCHANGED row
  BY <1>1 DEF RowsKept, IInv, TypeOK
<1>2. CASE \E p \in Scanner \cup Hook : SyncLibrary(p) \/ UpsertLeaf(p)
  BY <1>2, WritersKeepRows
<1>3. QED
  BY <1>1, <1>2
     DEF Next, vars, mirror, CreateInstance, DeleteInstance, Import, Remove,
         ScanStep, HookStep, FetchCatalog, ListNodes, IntegrityError,
         ServeWebhook, StartToggle

LEMMA ToggledRows ==
    ASSUME IInv, NEW p \in Toggler, SetTracked(p), NEW k \in Node
    PROVE  LET r == work[p] IN
           /\ row[k] = Absent => row'[k] = Absent
           /\ row[k] # Absent => row'[k] \in Rows /\ row'[k] # Absent
           /\ row[k] # Absent /\ k \in r.known /\ k \in Below(r.nodes)
                => \/ row'[k].override = r.value
                   \/ k \in r.set /\ row'[k] = row[k]
           /\ k \notin r.known \/ k \notin Below(r.nodes) => row'[k] = row[k]
<1> DEFINE r == work[p]
<1>1. r \in ToggleWork /\ r.known \subseteq Exists(row)
  BY DEF IInv, ToggleInv, Viewed, SetTracked, Idle
<1>2. row[k] # Absent => row[k] \in Rows
  BY DEF IInv, TypeOK
<1>3. row'[k] = IF k \in Cascade(r) \ r.set
                THEN [row[k] EXCEPT !.override = r.value] ELSE row[k]
  BY DEF SetTracked
<1>4. r.value \in BOOLEAN
  BY <1>1 DEF ToggleWork
<1>5. row[k] # Absent =>
        /\ [row[k] EXCEPT !.override = r.value] \in Rows
        /\ [row[k] EXCEPT !.override = r.value].override = r.value
  BY <1>2, <1>4 DEF Rows
<1>6. QED
  BY <1>1, <1>2, <1>3, <1>5, AbsentIsNoRow DEF Cascade, Exists

\* No row is ever deleted.
LEMMA RowsStay ==
    ASSUME IInv, [Next]_vars
    PROVE  /\ Exists(row) \subseteq Exists(row')
           /\ \A k \in Node : row'[k] # Absent => row'[k] \in Rows
<1>1. CASE RowsKept
  BY <1>1, RowsKeptExist, FreshIsARow DEF RowsKept
<1>2. CASE \E p \in Toggler : SetTracked(p)
  BY <1>2, ToggledRows DEF Exists
<1>3. QED
  BY <1>1, <1>2, RowStep

\* A scan or a webhook goes its way; no step makes what it holds untrue.
LEMMA WorkStep == IInv /\ [Next]_vars => WorkInv'
<1> SUFFICES ASSUME IInv, [Next]_vars PROVE WorkInv'
  OBVIOUS
<1>1. Exists(row) \subseteq Exists(row') /\ Exists(row) \subseteq Node
  BY RowsStay DEF Exists
<1>2. /\ work \in [Thread -> {Idle} \cup FetchedWork \cup ReadWork \cup ToggleWork]
      /\ Scanner \cup Hook \subseteq Thread /\ Toggler \subseteq Thread
      /\ Toggler \cap (Scanner \cup Hook) = {}
  BY LibraryAssumption DEF IInv, WorkInv, Thread
<1> DEFINE Fits(w, rows) ==
      \/ w = Idle
      \/ /\ w \in FetchedWork \cup ReadWork
         /\ \A k \in w.nodes : Line(k) \subseteq w.nodes
         /\ w.at = "read" => w.shown \subseteq w.known /\ w.known \subseteq Exists(rows)
<1>3. \A p \in Scanner \cup Hook : Fits(work[p], row) /\ Fits(work[p], row')
  BY <1>1 DEF IInv, WorkInv
<1> HIDE DEF Fits
<1>4. ASSUME NEW p \in Scanner \cup Hook, NEW w,
             Fits(w, row'), work' = [work EXCEPT ![p] = w]
      PROVE  WorkInv'
  <2>1. w \in {Idle} \cup FetchedWork \cup ReadWork
    BY <1>4 DEF Fits
  <2>2. work' \in [Thread -> {Idle} \cup FetchedWork \cup ReadWork \cup ToggleWork]
    BY <1>2, <1>4, <2>1
  <2>3. \A q \in Scanner \cup Hook : Fits(work'[q], row')
    BY <1>2, <1>3, <1>4
  <2>4. QED
    BY <2>2, <2>3 DEF WorkInv, Fits
<1>5. ASSUME NEW p \in Toggler, NEW w \in {Idle} \cup ToggleWork,
             work' = [work EXCEPT ![p] = w]
      PROVE  WorkInv'
  <2>1. \A q \in Scanner \cup Hook : Fits(work'[q], row')
    BY <1>2, <1>3, <1>5
  <2>2. QED
    BY <1>2, <1>5, <2>1 DEF WorkInv, Fits
<1>6. ASSUME NEW p \in Scanner, FetchCatalog(p) PROVE WorkInv'
  <2> DEFINE w == Fetched(catalog[server])
  <2>1. server \in Server
    BY <1>6 DEF FetchCatalog, IInv, TypeOK
  <2>2. Fits(w, row')
    BY <2>1 DEF Fits, Fetched, FetchedWork, IInv, TypeOK, CatalogInv
  <2>3. QED
    BY <1>4, <1>6, <2>2 DEF FetchCatalog
<1>7. ASSUME NEW p \in Scanner, ListNodes(p) PROVE WorkInv'
  <2> DEFINE w == Read(work[p].nodes)
  <2>1. work[p] \in FetchedWork \cup ReadWork /\ work[p].nodes \subseteq Node
    BY <1>3, <1>7 DEF Fits, ListNodes, Idle, FetchedWork, ReadWork
  <2>2. Fits(w, row')
    BY <1>1, <1>3, <1>7, <2>1 DEF Fits, ListNodes, Read, ReadWork, Idle
  <2>3. QED
    BY <1>4, <1>7, <2>2 DEF ListNodes
<1>8. ASSUME NEW p \in Hook, NEW k \in Node, ServeWebhook(p, k) PROVE WorkInv'
  <2> DEFINE w == Read(Line(k))
  <2>1. Line(k) \subseteq Node /\ \A n \in Line(k) : Line(n) \subseteq Line(k)
    BY LineTransitive
  <2>2. Fits(w, row')
    BY <1>1, <2>1 DEF Fits, Read, ReadWork, Idle
  <2>3. QED
    BY <1>4, <1>8, <2>2 DEF ServeWebhook
<1>9. ASSUME NEW p \in Scanner \cup Hook,
             SyncLibrary(p) \/ UpsertLeaf(p) \/ IntegrityError(p)
      PROVE  WorkInv'
  <2>1. Fits(Idle, row') /\ work' = [work EXCEPT ![p] = Idle]
    BY <1>9 DEF Fits, SyncLibrary, UpsertLeaf, IntegrityError
  <2>2. QED
    BY <1>4, <2>1
<1>10. ASSUME NEW p \in Toggler, NEW S \in References, NEW v \in BOOLEAN,
              StartToggle(p, S, v)
       PROVE  WorkInv'
  <2>1. Toggling(S, v) \in ToggleWork
    BY <1>1, <1>10 DEF Toggling, ToggleWork, StartToggle
  <2>2. QED
    BY <1>5, <1>10, <2>1 DEF StartToggle
<1>11. ASSUME NEW p \in Toggler, SetTracked(p) PROVE WorkInv'
  BY <1>5, <1>11 DEF SetTracked
<1>12. CASE UNCHANGED work
  BY <1>2, <1>3, <1>12 DEF WorkInv, Fits
<1>13. QED
  BY <1>6, <1>7, <1>8, <1>9, <1>10, <1>11, <1>12
     DEF Next, vars, CreateInstance, DeleteInstance, Import, Remove, ScanStep, HookStep

LEMMA BelowClosed ==
    ASSUME NEW S
    PROVE  Below(Below(S)) \subseteq Below(S)
BY LineTransitive DEF Below

LEMMA BelowOfBoth ==
    ASSUME NEW S, NEW T
    PROVE  Below(S \cup T) = Below(S) \cup Below(T)
BY DEF Below

LEMMA ToggleStep == IInv /\ [Next]_vars => ToggleInv'
<1> SUFFICES ASSUME IInv, [Next]_vars, NEW p \in Toggler
             PROVE  Viewed(p)' /\ Below(overtaken'[p]) \subseteq overtaken'[p]
  BY DEF ToggleInv, Below
<1> DEFINE r == work[p]
<1>1. Exists(row) \subseteq Node
  BY DEF Exists
<1>2. /\ work \in [Thread -> {Idle} \cup FetchedWork \cup ReadWork \cup ToggleWork]
      /\ Toggler \subseteq Thread /\ Toggler \cap (Scanner \cup Hook) = {}
  BY LibraryAssumption DEF IInv, WorkInv, Thread
<1>3. /\ Viewed(p) /\ Below(overtaken[p]) \subseteq overtaken[p]
      /\ overtaken \in [Toggler -> SUBSET Node]
  BY DEF IInv, ToggleInv, TypeOK
<1>4. Below({}) = {}
  BY DEF Below
<1>5. ASSUME NEW q \in Toggler, SetTracked(q)
      PROVE  Viewed(p)' /\ Below(overtaken'[p]) \subseteq overtaken'[p]
  <2> DEFINE t == work[q]
  <2>1. overtaken'[p] = IF p = q \/ r = Idle THEN {} ELSE overtaken[p] \cup Below(t.nodes)
    BY <1>5 DEF SetTracked
  <2>2. Below(overtaken'[p]) \subseteq overtaken'[p]
    <3>1. Below(overtaken[p] \cup Below(t.nodes)) \subseteq overtaken[p] \cup Below(t.nodes)
      BY <1>3, BelowClosed, BelowOfBoth
    <3>2. QED
      BY <1>4, <2>1, <3>1
  <2>3. CASE p = q \/ r = Idle
    <3>1. work'[p] = Idle
      <4>1. CASE p = q
        BY <1>2, <1>5, <4>1 DEF SetTracked
      <4>2. CASE p # q /\ r = Idle
        BY <1>2, <1>5, <4>2 DEF SetTracked
      <4>3. QED
        BY <2>3, <4>1, <4>2
    <3>2. QED
      BY <2>2, <3>1 DEF Viewed
  <2>4. CASE p # q /\ r # Idle
    <3>1. /\ r \in ToggleWork /\ r.nodes \subseteq r.known /\ r.known \subseteq Exists(row)
          /\ \A k \in r.set : row[k] # Absent /\ row[k].override # Null
          /\ \A k \in r.known \ overtaken[p] : k \in r.set <=> row[k].override = r.value
          /\ \A k \in Exists(row) \ (r.known \cup overtaken[p]) : row[k].override = Null
      BY <1>3, <2>4 DEF Viewed
    <3>2. work'[p] = r
      BY <1>2, <1>5, <2>4 DEF SetTracked
    <3>3. Exists(row') = Exists(row)
      BY <1>5, ToggledRows DEF Exists
    <3>4. /\ \A k \in Node \ overtaken'[p] : row'[k] = row[k]
          /\ overtaken[p] \subseteq overtaken'[p]
      BY <1>5, <2>1, <2>4, ToggledRows
    <3>5. t \in ToggleWork
      BY <1>5 DEF IInv, ToggleInv, Viewed, SetTracked, Idle
    <3>6. \A k \in r.set : row'[k] # Absent /\ row'[k].override # Null
      <4>1. t.value # Null /\ r.set \subseteq Node
        BY <3>1, <3>5, LibraryAssumption DEF ToggleWork
      <4>2. QED
        BY <1>5, <3>1, <4>1, ToggledRows
    <3>7. r.known \subseteq Node
      BY <1>1, <3>1
    <3>8. \A k \in r.known \ overtaken'[p] : k \in r.set <=> row'[k].override = r.value
      BY <3>1, <3>4, <3>7
    <3>9. \A k \in Exists(row') \ (r.known \cup overtaken'[p]) : row'[k].override = Null
      BY <1>1, <3>1, <3>3, <3>4
    <3>10. QED
      BY <2>2, <3>1, <3>2, <3>3, <3>6, <3>8, <3>9 DEF Viewed
  <2>5. QED
    BY <2>2, <2>3, <2>4
<1>6. ASSUME NEW S \in References, NEW v \in BOOLEAN, StartToggle(p, S, v)
      PROVE  Viewed(p)' /\ Below(overtaken'[p]) \subseteq overtaken'[p]
  <2> DEFINE w == Toggling(S, v)
  <2>1. /\ w \in ToggleWork /\ w.nodes \subseteq w.known /\ w.known = Exists(row)
        /\ \A k \in w.known : k \in w.set <=> row[k].override = w.value
        /\ w.set \subseteq w.known /\ w.value # Null
    BY <1>1, <1>6, LibraryAssumption DEF Toggling, ToggleWork, StartToggle
  <2>2. work'[p] = w /\ row' = row /\ overtaken' = overtaken
    BY <1>2, <1>6 DEF StartToggle, mirror, history
  <2>3. Exists(row') = Exists(row)
    BY <2>2 DEF Exists
  <2> HIDE DEF w
  <2>4. \A k \in w.set : row[k] # Absent /\ row[k].override # Null
    BY <2>1 DEF Exists
  <2>5. QED
    BY <1>3, <2>1, <2>2, <2>3, <2>4 DEF Viewed
<1>7. CASE RowsKept /\ work'[p] = r /\ overtaken' = overtaken
  <2>1. CASE r = Idle
    BY <1>3, <1>7, <2>1 DEF Viewed
  <2>2. CASE r # Idle
    <3>1. /\ r \in ToggleWork /\ r.nodes \subseteq r.known /\ r.known \subseteq Exists(row)
          /\ \A k \in r.set : row[k] # Absent /\ row[k].override # Null
          /\ \A k \in r.known \ overtaken[p] : k \in r.set <=> row[k].override = r.value
          /\ \A k \in Exists(row) \ (r.known \cup overtaken[p]) : row[k].override = Null
      BY <1>3, <2>2 DEF Viewed
    <3>2. r.known \subseteq Exists(row')
      BY <1>7, <3>1, RowsKeptExist
    <3>3. \A k \in Exists(row) : row'[k].override = row[k].override /\ row'[k] # Absent
      BY <1>7, <1>1, AbsentIsNoRow DEF RowsKept, Exists
    <3>4. r.set \subseteq Exists(row)
      BY <3>1 DEF ToggleWork, Exists
    <3>5. \A k \in Exists(row') \ (r.known \cup overtaken[p]) : row'[k].override = Null
      BY <1>7, <3>1, FreshIsARow DEF RowsKept, Exists
    <3>6. QED
      BY <1>3, <1>7, <3>1, <3>2, <3>3, <3>4, <3>5 DEF Viewed
  <2>3. QED
    BY <2>1, <2>2
<1>8. ASSUME NEW q \in Thread \ {p}, NEW w, work' = [work EXCEPT ![q] = w]
      PROVE  work'[p] = r
  BY <1>2, <1>8
<1>9. (\E q \in Scanner : ScanStep(q)) \/ (\E q \in Hook : HookStep(q))
         \/ (\E q \in Hook, k \in Node : ServeWebhook(q, k))
         \/ (\E q \in Toggler \ {p}, S \in References, v \in BOOLEAN : StartToggle(q, S, v))
        => work'[p] = r /\ overtaken' = overtaken
  <2>1. Scanner \cup Hook \cup (Toggler \ {p}) \subseteq Thread \ {p}
    BY <1>2 DEF Thread
  <2>2. QED
    BY <1>8, <2>1
       DEF ScanStep, HookStep, FetchCatalog, ListNodes, SyncLibrary, IntegrityError,
           UpsertLeaf, ServeWebhook, StartToggle, history
<1>10. QED
  BY <1>5, <1>6, <1>7, <1>9, RowStep
     DEF Next, vars, CreateInstance, DeleteInstance, Import, Remove, history

LEMMA TypeStep == IInv /\ [Next]_vars => TypeOK'
<1> SUFFICES ASSUME IInv, [Next]_vars PROVE TypeOK'
  OBVIOUS
<1>1. server' \in Server \cup {Null}
  BY DEF IInv, TypeOK, Next, vars, mirror, CreateInstance, DeleteInstance, Import,
         Remove, ScanStep, HookStep, FetchCatalog, ListNodes, SyncLibrary,
         IntegrityError, UpsertLeaf, ServeWebhook, StartToggle, SetTracked
<1>2. \A k \in Node : Line(k) \subseteq Node
  BY LineTransitive
<1>3. catalog' \in [Server -> SUBSET Node] /\ posted' \subseteq Node
  BY <1>2
     DEF IInv, TypeOK, Next, vars, outside, CreateInstance, DeleteInstance, Import,
         Remove, ScanStep, HookStep, FetchCatalog, ListNodes, SyncLibrary,
         IntegrityError, UpsertLeaf, ServeWebhook, StartToggle, SetTracked
<1>4. /\ want' \in [Node -> SUBSET BOOLEAN]
      /\ overtaken' \in [Toggler -> SUBSET Node]
  <2>1. ASSUME NEW p \in Toggler, SetTracked(p)
        PROVE  /\ want' \in [Node -> SUBSET BOOLEAN]
               /\ overtaken' \in [Toggler -> SUBSET Node]
    <3>1. work[p].value \in BOOLEAN /\ Below(work[p].nodes) \subseteq Node
      BY <2>1 DEF SetTracked, IInv, ToggleInv, Viewed, Idle, ToggleWork, Below
    <3>2. want' \in [Node -> SUBSET BOOLEAN]
      BY <2>1, <3>1 DEF SetTracked, IInv, TypeOK
    <3>3. overtaken' \in [Toggler -> SUBSET Node]
      BY <2>1, <3>1 DEF SetTracked, IInv, TypeOK
    <3>4. QED
      BY <3>2, <3>3
  <2>2. CASE UNCHANGED history
    BY <2>2 DEF IInv, TypeOK, history
  <2>3. QED
    BY <2>1, <2>2
       DEF Next, vars, CreateInstance, DeleteInstance, Import, Remove, ScanStep,
           HookStep, FetchCatalog, ListNodes, SyncLibrary, IntegrityError,
           UpsertLeaf, ServeWebhook, StartToggle, history
<1>5. \A p \in Thread : work'[p] # Idle => work'[p].nodes \subseteq Node
  BY WorkStep DEF WorkInv, FetchedWork, ReadWork, ToggleWork
<1>6. \A k \in Node : row'[k] # Absent => Line(k) \subseteq Exists(row')
  <2> SUFFICES ASSUME NEW k \in Node, row'[k] # Absent
               PROVE  Line(k) \subseteq Exists(row')
    OBVIOUS
  <2>1. CASE row[k] # Absent
    BY <2>1, RowsStay DEF IInv, TypeOK
  <2>2. CASE row[k] = Absent /\ UNCHANGED row
    BY <2>2
  <2>3. CASE row[k] = Absent /\ \E p \in Toggler : SetTracked(p)
    BY <2>3, ToggledRows
  <2>4. ASSUME row[k] = Absent, NEW p \in Scanner \cup Hook, SyncLibrary(p) \/ UpsertLeaf(p)
        PROVE  Line(k) \subseteq Exists(row')
    <3> DEFINE w == work[p]
    <3>1. /\ w.shown \subseteq w.known /\ w.known \subseteq Exists(row) /\ w.at = "read"
          /\ w.nodes \subseteq Node /\ \A n \in w.nodes : Line(n) \subseteq w.nodes
      BY <2>4 DEF IInv, WorkInv, TypeOK, SyncLibrary, UpsertLeaf, Idle, Thread
    <3>2. k \in w.nodes
      BY <2>4, <3>1 DEF SyncLibrary, UpsertLeaf, SoftHidden, Exists
    <3>3. \A n \in w.nodes : row'[n] # Absent
      <4> SUFFICES ASSUME NEW n \in w.nodes PROVE row'[n] # Absent
        OBVIOUS
      <4>1. CASE n \in w.known
        BY <4>1, <3>1, RowsStay DEF Exists
      <4>2. CASE n \notin w.known
        BY <4>2, <3>1, <2>4, FreshIsARow DEF SyncLibrary, UpsertLeaf, Upserted
      <4>3. QED
        BY <4>1, <4>2
    <3>4. QED
      BY <3>1, <3>2, <3>3 DEF Exists
  <2>5. QED
    BY <2>1, <2>2, <2>3, <2>4
       DEF Next, vars, mirror, CreateInstance, DeleteInstance, Import, Remove,
           ScanStep, HookStep, FetchCatalog, ListNodes, IntegrityError,
           ServeWebhook, StartToggle
<1>7. QED
  BY <1>1, <1>3, <1>4, <1>5, <1>6, RowsStay DEF TypeOK

\* A toggle reaches a node exactly when it reaches its parent or names it.
LEMMA BelowStep ==
    ASSUME NEW S \in SUBSET Node, NEW k \in Node \ S
    PROVE  k \in Below(S) <=> Parent[k] # Null /\ Parent[k] \in Below(S)
BY LineStep DEF Below

LEMMA WantStep == IInv /\ [Next]_vars => WantInv'
<1> SUFFICES ASSUME IInv, [Next]_vars PROVE WantInv'
  OBVIOUS
<1>1. ASSUME NEW p \in Toggler, SetTracked(p) PROVE WantInv'
  <2> DEFINE r == work[p]
             over == overtaken[p]
  <2>1. /\ r.nodes \in SUBSET Node /\ r.nodes \subseteq r.known
        /\ r.known \subseteq Exists(row) /\ r.value \in BOOLEAN
        /\ \A k \in r.set : row[k].override # Null
        /\ \A k \in r.known \ over : k \in r.set <=> row[k].override = r.value
        /\ \A k \in Exists(row) \ (r.known \cup over) : row[k].override = Null
        /\ Below(over) \subseteq over
    BY <1>1 DEF IInv, ToggleInv, Viewed, SetTracked, Idle, ToggleWork
  <2>2. \A k \in Node : want'[k] = IF k \notin Below(r.nodes) THEN want[k]
                                   ELSE IF k \in over THEN want[k] \cup {r.value}
                                   ELSE {r.value}
    BY <1>1 DEF SetTracked
  <2> SUFFICES ASSUME NEW k \in Node
               PROVE  IF row'[k] # Absent /\ row'[k].override # Null
                      THEN row'[k].override \in want'[k]
                      ELSE Inherited(k)' \subseteq want'[k]
    BY DEF WantInv
  <2>3. Inherited(k)' = IF Parent[k] = Null THEN {DefaultTracked} ELSE want'[Parent[k]]
    BY DEF Inherited
  <2>4. k \in r.nodes => k \in Below(r.nodes)
    BY LineStep DEF Below
  <2>5. Parent[k] # Null => /\ Parent[k] \in Node
                            /\ Parent[k] \in over => k \in over
    <3>1. Parent[k] # Null => Parent[k] \in Line(k) /\ Parent[k] \in Node
      BY LineStep
    <3>2. QED
      BY <2>1, <3>1 DEF Below
  <2>6. IF row[k] # Absent /\ row[k].override # Null
        THEN row[k].override \in want[k] ELSE Inherited(k) \subseteq want[k]
    BY DEF IInv, WantInv
  <2> HIDE DEF r, over
  <2>7. CASE k \in Below(r.nodes) /\ k \in r.known
    <3>1. row[k] # Absent /\ row'[k] # Absent
      BY <1>1, <2>1, <2>7, ToggledRows DEF Exists, r
    <3>2. row'[k].override = r.value \/ (k \in r.set /\ row'[k] = row[k])
      BY <1>1, <2>7, <3>1, ToggledRows DEF r
    <3>3. r.value \in want'[k]
      BY <2>2, <2>7
    <3>4. CASE row'[k].override = r.value
      <4>1. r.value # Null
        BY <2>1, LibraryAssumption, Zenon
      <4>2. QED
        BY <3>1, <3>3, <3>4, <4>1
    <3>5. CASE k \in r.set /\ row'[k] = row[k]
      BY <2>1, <2>2, <2>6, <2>7, <3>1, <3>5
    <3>6. QED
      BY <3>2, <3>4, <3>5
  <2>8. CASE k \in Below(r.nodes) /\ k \notin r.known
    <3>1. row'[k] = row[k] /\ (row[k] # Absent /\ k \notin over => row[k].override = Null)
      BY <1>1, <2>1, <2>8, ToggledRows DEF Exists, r
    <3>2. Parent[k] # Null /\ Parent[k] \in Below(r.nodes)
      BY <2>1, <2>8, BelowStep
    <3>3. Inherited(k) = want[Parent[k]]
      BY <3>2 DEF Inherited
    <3>4. CASE k \in over
      BY <2>2, <2>3, <2>5, <2>6, <2>8, <3>1, <3>2, <3>3, <3>4
    <3>5. CASE k \notin over
      BY <2>2, <2>3, <2>5, <2>8, <3>1, <3>2, <3>5
    <3>6. QED
      BY <3>4, <3>5
  <2>9. CASE k \notin Below(r.nodes)
    <3>1. row'[k] = row[k] /\ want'[k] = want[k]
      BY <1>1, <2>2, <2>9, ToggledRows DEF r
    <3>2. Inherited(k)' = Inherited(k)
      BY <2>1, <2>2, <2>3, <2>4, <2>5, <2>9, BelowStep DEF Inherited
    <3>3. QED
      BY <2>6, <3>1, <3>2
  <2>10. QED
    BY <2>7, <2>8, <2>9
<1>2. CASE ~\E p \in Toggler : SetTracked(p)
  <2>1. RowsKept /\ want' = want
    BY <1>2, RowStep
       DEF Next, vars, CreateInstance, DeleteInstance, Import, Remove, ScanStep,
           HookStep, FetchCatalog, ListNodes, SyncLibrary, IntegrityError,
           UpsertLeaf, ServeWebhook, StartToggle, history
  <2>2. ASSUME NEW k \in Node PROVE Inherited(k)' = Inherited(k)
    BY <2>1 DEF Inherited
  <2>3. QED
    BY <2>1, <2>2, AbsentIsNoRow, FreshIsARow DEF WantInv, IInv, RowsKept, Rows
<1>3. QED
  BY <1>1, <1>2

------------------------------------------------------------------------------
(* The theorems.                                                           *)

\* The inductive invariant holds in every reachable state.
THEOREM Inductive == Spec => []IInv
<1>1. IInv /\ [Next]_vars => IInv'
  BY TypeStep, CatalogStep, WorkStep, ToggleStep, WantStep DEF IInv
<1>2. QED
  BY InitInv, <1>1, PTL DEF Spec

\* Types, and no row of the mirror without the rows of its ancestors.
THEOREM TypeCorrect == Spec => []TypeOK
<1>1. IInv => TypeOK
  BY DEF IInv
<1>2. QED
  BY <1>1, Inductive, PTL

\* The Tracked flag a node resolves to is what the last toggle that covers it
\* said, whatever scans and webhooks overlapped with it; where toggles of a node
\* overlapped with each other, what one of them said.
THEOREM TrackedIsAsToggled == Spec => []TrackedAsToggled
<1>1. IInv => TrackedAsToggled
  <2> SUFFICES ASSUME IInv, NEW k \in Exists(row)
               PROVE  ResolveTracked(k) \in want[k]
    BY DEF TrackedAsToggled
  <2> DEFINE n == Up(k)
             m == Up(n)
  <2>1. /\ k \in Node /\ k # Null /\ n \in Node \cup {Null} /\ m \in Node \cup {Null}
        /\ n = Parent[k] /\ (n # Null => m = Parent[n]) /\ Up(m) = Null
        /\ (m # Null => Parent[m] = Null) /\ (n = Null => m = Null)
    BY DepthAssumption, LibraryAssumption DEF Up, Exists
  <2>2. /\ row[k] # Absent /\ (n # Null => row[n] # Absent)
        /\ (m # Null => row[m] # Absent)
    BY <2>1 DEF Exists, IInv, TypeOK, Line
  <2>3. \A x \in Node : IF row[x] # Absent /\ row[x].override # Null
                       THEN row[x].override \in want[x]
                       ELSE Inherited(x) \subseteq want[x]
    BY DEF IInv, WantInv
  <2> HIDE DEF n, m
  <2>4. ResolveTracked(k) =
          IF row[k].override # Null THEN row[k].override
          ELSE IF n # Null /\ row[n].override # Null THEN row[n].override
          ELSE IF m # Null /\ row[m].override # Null THEN row[m].override
          ELSE DefaultTracked
    BY <2>1, <2>2 DEF ResolveTracked, n, m
  <2>5. QED
    BY <2>1, <2>2, <2>3, <2>4 DEF Inherited
<1>2. QED
  BY <1>1, Inductive, PTL

\* No other session has committed to the mirror between what p read and now.
Undisturbed(p) ==
    /\ work[p].at = "read"
    /\ work[p].known = Exists(row)
    /\ work[p].shown = {k \in Exists(row) : ~row[k].hidden}

\* A scan's commit over the rows that it read makes the tree exactly the catalog
\* that it fetched, whatever earlier scans and webhooks had left: what came back
\* is shown again, what is gone is hidden with all that hangs under it
\* (service.py:276-459).  It is what MirrorSettles rests on.
THEOREM ScanIsExact ==
    Spec => [][\A p \in Scanner :
                  SyncLibrary(p) /\ Undisturbed(p) => Tree' = work[p].nodes]_vars
<1>1. ASSUME IInv, NEW p \in Scanner, SyncLibrary(p), Undisturbed(p)
      PROVE  Tree' = work[p].nodes
  <2> DEFINE nodes == work[p].nodes
  <2>1. /\ nodes \subseteq Node
        /\ \A k \in nodes : Line(k) \subseteq nodes
    BY <1>1 DEF IInv, WorkInv, Undisturbed, Idle, FetchedWork, ReadWork
  <2>2. \A k \in Node : row[k] # Absent => row[k] \in Rows
    BY <1>1 DEF IInv, TypeOK
  <2>3. \A k \in Node :
          row'[k] = IF k \in nodes THEN Upserted(p, k) ELSE SoftHidden(p, k)
    BY <1>1 DEF SyncLibrary
  <2>4. /\ \A k \in Node : k \in work[p].known <=> row[k] # Absent
        /\ \A k \in Node : k \in work[p].shown <=> row[k] # Absent /\ ~row[k].hidden
    BY <1>1 DEF Undisturbed, Exists
  <2> HIDE DEF nodes
  <2>5. ASSUME NEW k \in Node, k \in nodes PROVE row'[k] # Absent /\ ~row'[k].hidden
    <3>1. CASE row[k] = Absent
      <4>1. row'[k] = Fresh
        BY <2>3, <2>4, <2>5, <3>1 DEF Upserted
      <4>2. ~Fresh.hidden
        BY DEF Fresh
      <4>3. QED
        BY <4>1, <4>2, FreshIsARow
    <3>2. CASE row[k] # Absent /\ row[k].hidden
      <4>1. row'[k] = [row[k] EXCEPT !.hidden = FALSE]
        BY <2>3, <2>4, <2>5, <3>2 DEF Upserted
      <4>2. row'[k] \in Rows /\ ~row'[k].hidden
        BY <2>2, <3>2, <4>1 DEF Rows
      <4>3. QED
        BY <4>2, AbsentIsNoRow
    <3>3. CASE row[k] # Absent /\ ~row[k].hidden
      BY <2>3, <2>4, <2>5, <3>3 DEF Upserted
    <3>4. QED
      BY <3>1, <3>2, <3>3
  <2>6. ASSUME NEW k \in Node, k \notin nodes PROVE row'[k] = Absent \/ row'[k].hidden
    <3>1. CASE row[k] # Absent /\ ~row[k].hidden
      <4>1. row'[k] = [row[k] EXCEPT !.hidden = TRUE]
        BY <2>3, <2>4, <2>6, <3>1 DEF SoftHidden
      <4>2. QED
        BY <2>2, <3>1, <4>1 DEF Rows
    <3>2. CASE row[k] = Absent \/ row[k].hidden
      BY <2>3, <2>4, <2>6, <3>2 DEF SoftHidden
    <3>3. QED
      BY <3>1, <3>2
  <2>7. ASSUME NEW k \in Node
        PROVE  k \in nodes <=> \A n \in Line(k) : row'[n] # Absent /\ ~row'[n].hidden
    <3>1. k \in Line(k) /\ \A n \in Line(k) : n \in Node
      BY LineStep, LineTransitive
    <3>2. k \in nodes => \A n \in Line(k) : n \in nodes
      BY <2>1 DEF nodes
    <3>3. QED
      BY <2>5, <2>6, <3>1, <3>2
  <2>8. Tree' = {k \in Node : \A n \in Line(k) : row'[n] # Absent /\ ~row'[n].hidden}
    BY DEF Tree
  <2>9. QED
    BY <2>1, <2>7, <2>8 DEF nodes
<1>2. IInv /\ [Next]_vars =>
        [\A p \in Scanner :
            SyncLibrary(p) /\ Undisturbed(p) => Tree' = work[p].nodes]_vars
  BY <1>1
<1>3. QED
  BY <1>2, Inductive, PTL DEF Spec
=============================================================================
