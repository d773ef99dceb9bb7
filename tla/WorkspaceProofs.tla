--------------------------- MODULE WorkspaceProofs ---------------------------
(***************************************************************************)
(* Proofs about Workspace: types, one opening per visit, titles that are   *)
(* kept, and new conversations that open.  Each invariant is an operator   *)
(* of what a render is given, so that one lemma covers every render.       *)
(***************************************************************************)
EXTENDS Workspace, SequenceTheorems, TLAPS

-----------------------------------------------------------------------------
(* Types                                                                   *)

QueryTyped(q)  == DOMAIN q = Keys /\ \A k \in Keys : q[k] \in EntryOf(k)
OpsTyped(os)   == os \subseteq OpsOf(OfThread, Threads) \cup OpsOf(OfProject, {None})
RouteTyped(r)  == r \in [requested : BOOLEAN, titled : SUBSET Threads,
                         opening : {"idle", "pending", "error", "success"}]
DialogTyped(d) == d \in [subject : Projects \cup {None, "create"},
                         failed : SUBSET (Projects \cup {"create"}),
                         pending : SUBSET (Projects \cup {"create"})]

LEMMA KeysDiffer ==
    /\ \A k \in Projects : k \notin Threads /\ k # "projects" /\ k # None
    /\ \A k \in Threads : k # "projects" /\ k # None
  BY WorkspaceShape

LEMMA KeyIds ==
    /\ "projects" \in Keys /\ IdsOf("projects") = Seq(Projects)
    /\ \A k \in Projects : k \in Keys /\ IdsOf(k) = Seq(Threads)
    /\ \A k \in Threads : k \in Keys /\ IdsOf(k) = {<<>>}
  BY KeysDiffer DEF Keys, IdsOf

\* What a key's entry holds.
LEMMA EntryData ==
  ASSUME NEW q, QueryTyped(q), NEW k \in Keys
  PROVE  /\ q[k].data.ids \in IdsOf(k) /\ q[k].answer.data.ids \in IdsOf(k)
         /\ q[k].data \in DataOf(k) /\ q[k].answer.data \in DataOf(k)
         /\ q[k] \in EntryOf(k)
  BY DEF QueryTyped, EntryOf, DataOf

LEMMA NoDataTyped == \A k \in Keys : NoData \in DataOf(k)
<1> SUFFICES ASSUME NEW k \in Keys PROVE NoData \in DataOf(k)
  OBVIOUS
<1>1. <<>> \in IdsOf(k)
  BY DEF IdsOf
<1> QED
  BY <1>1 DEF NoData, DataOf

LEMMA AbsentTyped == \A k \in Keys : Absent \in EntryOf(k)
  BY NoDataTyped DEF Absent, NoAnswer, EntryOf

LEMMA FetchedTyped ==
  ASSUME NEW k \in Keys, NEW e \in EntryOf(k)
  PROVE  Fetched(e) \in EntryOf(k)
  BY NoDataTyped DEF Fetched, NoAnswer, EntryOf

LEMMA MountedTyped ==
  ASSUME NEW q, QueryTyped(q), NEW l
  PROVE  QueryTyped(Mounted(l, q))
  BY FetchedTyped DEF QueryTyped, Mounted

LEMMA InvalidatedTyped ==
  ASSUME NEW q, QueryTyped(q), NEW ks
  PROVE  QueryTyped(Invalidated(q, ks))
<1> SUFFICES ASSUME NEW k \in Keys PROVE Invalidated(q, ks)[k] \in EntryOf(k)
  BY DEF QueryTyped, Invalidated
<1>1. [q[k] EXCEPT !.stale = TRUE] \in EntryOf(k)
  BY DEF QueryTyped, EntryOf
<1> QED
  BY <1>1, FetchedTyped DEF QueryTyped, Invalidated

\* Where a page is led stays an address.
LEMMA LandedPlace ==
  ASSUME NEW l \in Places, NEW q, QueryTyped(q)
  PROVE  Landed(l, q) \in Places
<1>1. Entered(l, q) \in Places
  <2>1. CASE l.page = "index" /\ Success(q, "projects") /\ q["projects"].data.ids # <<>>
    <3> DEFINE p == Head(q["projects"].data.ids)
    <3>1. p \in Projects
      <4>1. q["projects"].data.ids \in Seq(Projects)
        BY EntryData, KeyIds
      <4> HIDE DEF p
      <4>2. q["projects"].data.ids # <<>> /\ p = Head(q["projects"].data.ids)
        BY <2>1 DEF p
      <4> QED
        BY <4>1, <4>2, HeadTailProperties
    <3>2. q[p].data.ids \in Seq(Threads)
      BY <3>1, EntryData, KeyIds
    <3>3. q[p].data.ids # <<>> => Head(q[p].data.ids) \in Threads
      BY <3>2, HeadTailProperties
    <3>4. \/ Entered(l, q) = l \/ Entered(l, q) = ProjectAt(p)
          \/ q[p].data.ids # <<>> /\ Entered(l, q) = ThreadAt(p, Head(q[p].data.ids))
      BY <2>1 DEF Entered
    <3>5. ProjectAt(p) \in Places
      BY <3>1 DEF Places, ProjectAt, ThreadAt
    <3>6. q[p].data.ids # <<>> => ThreadAt(p, Head(q[p].data.ids)) \in Places
      BY <3>1, <3>3 DEF Places
    <3> QED
      BY <3>4, <3>5, <3>6
  <2> QED
    BY <2>1 DEF Entered
<1>2. ASSUME NEW m \in Places, m.page = "work"
      PROVE  m.project \in Projects /\ m.thread \in Threads \cup {None}
  BY <1>2 DEF Places, Index, ThreadAt, ToolsAt
<1>3. ASSUME NEW m \in Places PROVE Bounced(m, q) \in Places
  <2>1. CASE Bounced(m, q) = m
    BY <2>1
  <2>2. CASE m.page = "work" /\ Bounced(m, q) = ProjectAt(m.project)
    BY <2>2, <1>2 DEF Places, ProjectAt, ThreadAt
  <2> QED
    BY <2>1, <2>2 DEF Bounced
<1>4. ASSUME NEW m \in Places PROVE Forwarded(m, q) \in Places
  <2>1. CASE /\ m.page = "work" /\ q[m.project].data.ids # <<>>
             /\ Forwarded(m, q) = ThreadAt(m.project, Head(q[m.project].data.ids))
    <3>1. m.project \in Projects
      BY <1>2, <2>1
    <3>2. q[m.project].data.ids \in Seq(Threads)
      BY <3>1, EntryData, KeyIds
    <3>3. Head(q[m.project].data.ids) \in Threads
      BY <3>2, <2>1, HeadTailProperties
    <3> QED
      BY <2>1, <3>1, <3>3 DEF Places
  <2> QED
    BY <2>1 DEF Forwarded
<1> QED
  BY <1>1, <1>3, <1>4 DEF Landed

-----------------------------------------------------------------------------
(* What a render does                                                      *)

\* The route is kept or new, mutations lose their component, and at most one
\* conversation is started, with an id of its own.
Continues(o, r, kinds, kept) ==
    \/ "open" \notin kinds /\ kept = r
    \/ "open" \in kinds /\ kept = NewRoute
Starts(at, o, kinds, kept) ==
    \/ route' = kept /\ ops' = Detached(o, kinds) /\ born' = born
    \/ \E t \in Threads \ born :
         /\ at.page = "work" /\ ~kept.requested
         /\ route' = [kept EXCEPT !.requested = TRUE, !.opening = "pending"]
         /\ ops' = Detached(o, kinds) \cup {Op("open", at.project, t, TRUE)}
         /\ born' = born \cup {t}

LEMMA RenderIs ==
  ASSUME NEW l, NEW q, NEW o, NEW r, NEW d, Render(l, q, o, r, d)
  PROVE  /\ MayForget(l, o) /\ loc' = Landed(l, q) /\ query' = Mounted(Landed(l, q), q)
         /\ dialog' = d \/ dialog' = NoDialog
         /\ \E kinds \in SUBSET {"open", "create", "rename"}, kept \in {r, NewRoute} :
              /\ Continues(o, r, kinds, kept)
              /\ Starts(Landed(l, q), o, kinds, kept)
              /\ "open" \in kinds => loc.page # "work" \/ l.page # "work"
<1> DEFINE at    == Landed(l, q)
           same  == loc.page = "work" /\ l.page = "work"
           kept  == IF same THEN r ELSE NewRoute
           kinds == (IF same THEN {} ELSE {"open"})
                    \cup (IF Kept(at, q) THEN {} ELSE {"create", "rename"})
           needs == /\ at.page = "work" /\ at.thread = None
                    /\ Success(q, at.project) /\ q[at.project].data.ids = <<>>
           opens == needs /\ MayOpen(kept) /\ Threads \ born # {}
           t     == CHOOSE x \in Threads \ born : TRUE
<1>1. /\ MayForget(l, o) /\ loc' = at /\ query' = Mounted(at, q)
      /\ route' = IF opens THEN [kept EXCEPT !.requested = TRUE, !.opening = "pending"]
                  ELSE kept
      /\ ops' = IF opens THEN Detached(o, kinds) \cup {Op("open", at.project, t, TRUE)}
                ELSE Detached(o, kinds)
      /\ born' = IF opens THEN born \cup {t} ELSE born
      /\ dialog' = IF Kept(at, q) THEN d ELSE NoDialog
  BY DEF Render
<1>2. Continues(o, r, kinds, kept) /\ ("open" \in kinds => ~same)
  BY DEF Continues
<1>3. opens => at.page = "work" /\ ~kept.requested /\ t \in Threads \ born
  BY DEF MayOpen
<1>4. kinds \in SUBSET {"open", "create", "rename"} /\ kept \in {r, NewRoute}
  OBVIOUS
<1> HIDE DEF kept, kinds, opens, t, at
<1>5. Starts(at, o, kinds, kept)
  BY <1>1, <1>3 DEF Starts
<1>6. \E ks \in SUBSET {"open", "create", "rename"}, kp \in {r, NewRoute} :
        /\ Continues(o, r, ks, kp) /\ Starts(at, o, ks, kp)
        /\ "open" \in ks => loc.page # "work" \/ l.page # "work"
  BY <1>2, <1>4, <1>5
<1> QED
  BY <1>1, <1>6 DEF at

LEMMA DetachedTyped ==
  ASSUME NEW o, OpsTyped(o), NEW kinds
  PROVE  OpsTyped(Detached(o, kinds))
  BY DEF OpsTyped, Detached, OpsOf

LEMMA OpTyped ==
  ASSUME NEW p \in Projects, NEW a \in BOOLEAN
  PROVE  /\ \A kind \in OfThread, t \in Threads :
              Op(kind, p, t, a) \in OpsOf(OfThread, Threads)
         /\ \A kind \in OfProject : Op(kind, p, None, a) \in OpsOf(OfProject, {None})
  BY DEF Op, OpsOf

LEMMA WorkPlace ==
  ASSUME NEW l \in Places
  PROVE  /\ l.page \in {"work", "tools"} => l.project \in Projects
         /\ l.thread \in Threads \cup {None}
         /\ l.page = "index" => l = Index
         /\ l.thread # None => l.page = "work"
  BY DEF Places, Index, ThreadAt, ToolsAt

LEMMA RenderTyped ==
  ASSUME NEW l \in Places, NEW q, QueryTyped(q), NEW o, OpsTyped(o),
         NEW r, RouteTyped(r), NEW d, DialogTyped(d),
         born \subseteq Projects \cup Threads, Render(l, q, o, r, d)
  PROVE  /\ loc' \in Places /\ QueryTyped(query') /\ OpsTyped(ops')
         /\ RouteTyped(route') /\ DialogTyped(dialog')
         /\ born' \subseteq Projects \cup Threads
<1>1. /\ loc' = Landed(l, q) /\ loc' \in Places /\ query' = Mounted(Landed(l, q), q)
      /\ dialog' = d \/ dialog' = NoDialog
  BY RenderIs, LandedPlace
<1>2. QueryTyped(query')
  BY <1>1, MountedTyped
<1>3. DialogTyped(dialog')
  BY <1>1 DEF DialogTyped, NoDialog
<1>4. PICK kinds \in SUBSET {"open", "create", "rename"}, kept \in {r, NewRoute} :
        /\ Continues(o, r, kinds, kept) /\ Starts(Landed(l, q), o, kinds, kept)
  BY RenderIs
<1>5. RouteTyped(kept)
  <2>1. RouteTyped(NewRoute)
    BY DEF RouteTyped, NewRoute
  <2> QED
    BY <1>4, <2>1 DEF Continues
<1>6. OpsTyped(Detached(o, kinds))
  BY DetachedTyped
<1>7. CASE route' = kept /\ ops' = Detached(o, kinds) /\ born' = born
  BY <1>1, <1>2, <1>3, <1>5, <1>6, <1>7
<1>8. CASE \E t \in Threads \ born :
         /\ loc'.page = "work"
         /\ route' = [kept EXCEPT !.requested = TRUE, !.opening = "pending"]
         /\ ops' = Detached(o, kinds) \cup {Op("open", loc'.project, t, TRUE)}
         /\ born' = born \cup {t}
  <2>1. PICK t \in Threads \ born :
         /\ loc'.page = "work"
         /\ route' = [kept EXCEPT !.requested = TRUE, !.opening = "pending"]
         /\ ops' = Detached(o, kinds) \cup {Op("open", loc'.project, t, TRUE)}
         /\ born' = born \cup {t}
    BY <1>8
  <2>2. Op("open", loc'.project, t, TRUE) \in OpsOf(OfThread, Threads)
    <3>1. loc'.project \in Projects
      BY <1>1, <2>1, WorkPlace
    <3> QED
      BY <3>1, OpTyped DEF OfThread
  <2>3. RouteTyped(route')
    BY <1>5, <2>1 DEF RouteTyped
  <2>4. OpsTyped(ops')
    BY <1>6, <2>1, <2>2 DEF OpsTyped
  <2> QED
    BY <1>1, <1>2, <1>3, <2>1, <2>3, <2>4
<1> QED
  BY <1>1, <1>4, <1>7, <1>8 DEF Starts

-----------------------------------------------------------------------------
(* Type correctness                                                        *)

LEMMA WithoutSeq ==
  ASSUME NEW S, NEW s \in Seq(S), NEW x
  PROVE  /\ Without(s, x) \in Seq(S)
         /\ \A y : Contains(Without(s, x), y) => Contains(s, y)
         /\ IsInjective(s) => IsInjective(Without(s, x)) /\ ~Contains(Without(s, x), x)
<1>1. CASE ~Contains(s, x)
  BY <1>1 DEF Without
<1>2. CASE Contains(s, x)
  <2> DEFINE i == CHOOSE i \in DOMAIN s : s[i] = x
             a == SubSeq(s, 1, i - 1)
             b == SubSeq(s, i + 1, Len(s))
  <2>1. i \in 1 .. Len(s) /\ s[i] = x
    BY <1>2 DEF Contains
  <2>2. Without(s, x) = a \o b
    BY <1>2 DEF Without, RemoveAt
  <2> HIDE DEF i
  <2>3. /\ a \in Seq(S) /\ Len(a) = i - 1 /\ \A j \in 1 .. (i - 1) : a[j] = s[j]
    BY <2>1
  <2>4. /\ b \in Seq(S) /\ Len(b) = Len(s) - i
        /\ \A j \in 1 .. (Len(s) - i) : b[j] = s[i + j]
    BY <2>1
  <2> HIDE DEF a, b
  <2>5. /\ a \o b \in Seq(S) /\ Len(a \o b) = Len(s) - 1
        /\ \A j \in 1 .. (Len(s) - 1) : (a \o b)[j] = IF j < i THEN s[j] ELSE s[j + 1]
    <3>1. /\ a \o b \in Seq(S) /\ Len(a \o b) = Len(a) + Len(b)
          /\ \A j \in 1 .. Len(a) + Len(b) :
               (a \o b)[j] = IF j <= Len(a) THEN a[j] ELSE b[j - Len(a)]
      BY <2>3, <2>4, ConcatProperties
    <3> QED
      BY <2>1, <2>3, <2>4, <3>1
  <2> DEFINE c == a \o b
  <2> HIDE DEF c
  <2>6. /\ c \in Seq(S) /\ Len(c) = Len(s) - 1
        /\ \A j \in 1 .. (Len(s) - 1) : c[j] = IF j < i THEN s[j] ELSE s[j + 1]
    BY <2>5 DEF c
  <2>7. \A y : Contains(c, y) => Contains(s, y)
    BY <2>1, <2>6 DEF Contains
  <2>8. ASSUME IsInjective(s) PROVE IsInjective(c) /\ ~Contains(c, x)
    <3>1. DOMAIN s = 1 .. Len(s) /\ DOMAIN c = 1 .. Len(c) /\ Len(s) \in Nat
      BY <2>6
    <3>2. \A j \in 1 .. Len(s), m \in 1 .. Len(s) : s[j] = s[m] => j = m
      BY <2>8, <3>1 DEF IsInjective
    <3>3. \A j \in 1 .. Len(c), m \in 1 .. Len(c) : c[j] = c[m] => j = m
      BY <2>1, <2>6, <3>1, <3>2
    <3>4. \A j \in 1 .. Len(c) : c[j] # x
      BY <2>1, <2>6, <3>1, <3>2
    <3> QED
      BY <3>1, <3>3, <3>4 DEF Contains, IsInjective
  <2> QED
    BY <2>2, <2>6, <2>7, <2>8 DEF c
<1> QED
  BY <1>1, <1>2

LEMMA AnswerTyped ==
  ASSUME TypeOK, NEW k \in Keys
  PROVE  Answer(k) \in [ok : BOOLEAN, data : DataOf(k)]
<1>1. /\ projects \in Seq(Projects) /\ \A p \in Projects : threads[p] \in Seq(Threads)
      /\ \A ts : named \cap ts \in SUBSET Threads
  BY DEF TypeOK
<1>2. CASE k = "projects"
  BY <1>1, <1>2, KeyIds, KeysDiffer DEF Answer, DataOf
<1>3. CASE k \in Projects
  <2>1. Contains(projects, k) \in BOOLEAN
    BY DEF Contains
  <2>2. Answer(k) = [ok |-> Contains(projects, k),
                     data |-> [loaded |-> TRUE, ids |-> threads[k],
                               named |-> named \cap Range(threads[k])]]
    BY <1>3, KeysDiffer DEF Answer
  <2>3. threads[k] \in IdsOf(k) /\ named \cap Range(threads[k]) \in SUBSET Threads
    BY <1>1, <1>3, KeyIds
  <2> QED
    BY <2>1, <2>2, <2>3 DEF DataOf
<1>4. CASE k \in Threads
  BY <1>1, <1>4, KeyIds, KeysDiffer DEF Answer, DataOf
<1> QED
  BY <1>2, <1>3, <1>4 DEF Keys

LEMMA TitledTyped ==
  ASSUME NEW q, QueryTyped(q), NEW o, o.thread \in Threads
  PROVE  QueryTyped(Titled(q, o))
<1> SUFFICES ASSUME NEW k \in Keys PROVE Titled(q, o)[k] \in EntryOf(k)
  BY DEF QueryTyped, Titled
<1>1. q[k] \in EntryOf(k)
  BY DEF QueryTyped
<1>2. ASSUME NEW ts \in SUBSET Threads
      PROVE  [q[k] EXCEPT !.status = "success", !.stale = FALSE, !.data.named = ts]
               \in EntryOf(k)
  BY <1>1 DEF EntryOf, DataOf
<1>3. q[k].data.named \in SUBSET Threads
  BY <1>1 DEF EntryOf, DataOf
<1> QED
  BY <1>1, <1>2, <1>3 DEF Titled

LEMMA LeadsPlace ==
  ASSUME TypeOK, NEW o \in ops
  PROVE  Leads(o) \in Places
<1>1. o.project \in Projects /\ (o.kind \in OfThread => o.thread \in Threads)
  BY DEF TypeOK, OpsOf, OfThread, OfProject
<1>2. loc \in Places
  BY DEF TypeOK
<1>3. Index \in Places /\ ProjectAt(o.project) \in Places
  <2>1. ProjectAt(o.project) = ThreadAt(o.project, None)
    BY DEF ProjectAt, ThreadAt
  <2> QED
    BY <1>1, <2>1 DEF Places
<1>4. o.kind \in OfThread => ThreadAt(o.project, o.thread) \in Places
  BY <1>1 DEF Places
<1> QED
  BY <1>2, <1>3, <1>4 DEF Leads, OfThread

\* The components of TypeOK.
LEMMA TypeParts ==
    TypeOK <=> /\ projects \in Seq(Projects) /\ threads \in [Projects -> Seq(Threads)]
               /\ named \subseteq Threads /\ born \subseteq Projects \cup Threads
               /\ loc \in Places /\ QueryTyped(query) /\ OpsTyped(ops)
               /\ RouteTyped(route) /\ DialogTyped(dialog) /\ actions \in 0..MaxActions
  BY DEF TypeOK, QueryTyped, OpsTyped, RouteTyped, DialogTyped

LEMMA MovedTyped ==
  ASSUME NEW o \in ops, OpsTyped(ops), NEW phase \in {"sent", "applied", "refetch", "missed"}
  PROVE  OpsTyped(Moved(o, phase))
  BY DEF OpsTyped, Moved, OpsOf

LEMMA ListedTyped ==
  ASSUME TypeOK
  PROVE  ListedProjects \subseteq Projects
<1>1. query["projects"].data.ids \in Seq(Projects)
  BY TypeParts, EntryData, KeyIds
<1> QED
  BY <1>1, ElementOfSeq DEF ListedProjects, Range

\* Renders of the page as it is, or elsewhere.
LEMMA RenderType ==
  ASSUME TypeOK, NEW l \in Places, NEW q, QueryTyped(q), NEW o, OpsTyped(o),
         NEW r, RouteTyped(r), NEW d, DialogTyped(d), Render(l, q, o, r, d),
         UNCHANGED serverVars, actions' \in 0..MaxActions
  PROVE  TypeOK'
<1>1. born \subseteq Projects \cup Threads
  BY TypeParts
<1>2. /\ loc' \in Places /\ QueryTyped(query') /\ OpsTyped(ops')
      /\ RouteTyped(route') /\ DialogTyped(dialog')
      /\ born' \subseteq Projects \cup Threads
  BY <1>1, RenderTyped
<1> QED
  BY <1>2 DEF TypeOK, serverVars, QueryTyped, OpsTyped, RouteTyped, DialogTyped

LEMMA InitType ==
  Init => TypeOK
<1> SUFFICES ASSUME Init PROVE TypeOK
  OBVIOUS
<1>1. born \subseteq Projects \cup Threads
  <2>1. Range(FirstList) \subseteq Projects
    BY WorkspaceShape, ElementOfSeq DEF Range
  <2>2. ASSUME NEW p \in Projects PROVE Range(FirstOf[p]) \subseteq Threads
    <3>1. FirstOf[p] \in Seq(Threads)
      BY WorkspaceShape
    <3> QED
      BY <3>1, ElementOfSeq DEF Range
  <2> QED
    BY <2>1, <2>2 DEF Init
<1>2. loc \in Places
  BY DEF Init, Places, Index, ProjectAt, ThreadAt
<1>3. QueryTyped(query)
  BY AbsentTyped, FetchedTyped DEF Init, QueryTyped
<1>4. projects \in Seq(Projects) /\ threads \in [Projects -> Seq(Threads)] /\ named \subseteq Threads
  BY WorkspaceShape DEF Init
<1>5. OpsTyped(ops) /\ RouteTyped(route) /\ DialogTyped(dialog) /\ actions \in 0..MaxActions
  BY WorkspaceShape DEF Init, OpsTyped, RouteTyped, DialogTyped, NewRoute, NoDialog
<1> QED
  BY <1>1, <1>2, <1>3, <1>4, <1>5, TypeParts

LEMMA UserTyped ==
  ASSUME TypeOK, User
  PROVE  TypeOK'
<1> USE DEF Acts, serverVars
<1>a. ASSUME Acts PROVE actions' \in 0..MaxActions /\ UNCHANGED serverVars
  BY <1>a, WorkspaceShape DEF TypeOK
<1>t. /\ loc \in Places /\ QueryTyped(query) /\ OpsTyped(ops) /\ RouteTyped(route)
      /\ DialogTyped(dialog) /\ born \subseteq Projects \cup Threads
  BY TypeParts
\* An action that sends one mutation and does not render.
<1>s. ASSUME NEW x, OpsTyped({x}), ops' = Sends(x), Acts, DialogTyped(dialog'),
             born' \subseteq Projects \cup Threads, UNCHANGED <<loc, query, route>>
      PROVE  TypeOK'
  <2>1. OpsTyped(ops')
    BY <1>s, <1>t DEF OpsTyped, Sends
  <2> QED
    BY <1>a, <1>s, <2>1, <1>t DEF TypeOK, QueryTyped, OpsTyped, RouteTyped, DialogTyped
<1>o. ASSUME NEW p \in Projects, NEW a \in BOOLEAN
      PROVE  /\ \A kind \in OfThread, t \in Threads : OpsTyped({Op(kind, p, t, a)})
             /\ \A kind \in OfProject : OpsTyped({Op(kind, p, None, a)})
  BY OpTyped DEF OpsTyped
<1>l. ListedProjects \subseteq Projects
  BY ListedTyped
<1>1. ASSUME NEW l \in Places, GoTo(l) PROVE TypeOK'
  BY <1>1, <1>a, <1>t, RenderType DEF GoTo
<1>2. ASSUME NEW p \in Projects, NEW t \in Threads, NewThread(p, t) PROVE TypeOK'
  <2>1. OpsTyped({Op("new", p, t, FALSE)})
    BY <1>o DEF OfThread
  <2> QED
    BY <1>2, <1>s, <1>t, <2>1 DEF NewThread
<1>3. ASSUME NEW p \in Projects, NEW t \in Threads, DeleteThread(p, t) PROVE TypeOK'
  <2>1. OpsTyped({Op("delete", p, t, t = loc.thread)})
    BY <1>o DEF OfThread
  <2> QED
    BY <1>3, <1>s, <1>t, <2>1 DEF DeleteThread
<1>4. ASSUME NEW p \in Projects, SubmitName(p) PROVE TypeOK'
  <2>1. OpsTyped({Op("create", p, None, TRUE)}) /\ OpsTyped({Op("rename", p, None, TRUE)})
    BY <1>o DEF OfProject
  <2>2. DialogTyped(dialog')
    <3>1. dialog.subject \in Projects \cup {"create"}
      BY <1>4 DEF SubmitName, MaySubmit
    <3> QED
      BY <1>4, <1>t, <3>1 DEF SubmitName, DialogTyped
  <2>3. born' \subseteq Projects \cup Threads /\ Acts /\ UNCHANGED <<loc, query, route>>
    BY <1>4, <1>t DEF SubmitName
  <2>4. ops' = Sends(Op("create", p, None, TRUE)) \/ ops' = Sends(Op("rename", p, None, TRUE))
    BY <1>4 DEF SubmitName
  <2> QED
    BY <1>s, <2>1, <2>2, <2>3, <2>4
<1>5. ASSUME NEW p \in Projects, RemoveProject(p) PROVE TypeOK'
  <2>1. OpsTyped({Op("remove", p, None, p = loc.project)})
    BY <1>o DEF OfProject
  <2> QED
    BY <1>5, <1>s, <1>t, <2>1 DEF RemoveProject
<1>6. ASSUME NEW p \in Projects, FirstProject(p) PROVE TypeOK'
  <2>1. OpsTyped({Op("first", p, None, FALSE)})
    BY <1>o DEF OfProject
  <2> QED
    BY <1>6, <1>s, <1>t, <2>1 DEF FirstProject
<1>7. ASSUME NEW s \in {"create"} \cup Projects, OpenDialog(s) PROVE TypeOK'
  <2>1. DialogTyped(dialog')
    BY <1>7, <1>t DEF OpenDialog, DialogTyped
  <2> QED
    BY <1>7, <1>a, <1>t, <2>1 DEF OpenDialog, TypeOK, QueryTyped, OpsTyped, RouteTyped, DialogTyped
<1>8. CASE CloseDialog
  <2>1. DialogTyped(dialog')
    BY <1>8, <1>t DEF CloseDialog, DialogTyped
  <2> QED
    BY <1>8, <2>1 DEF CloseDialog, TypeOK, DialogTyped
<1>9. CASE UserMessagePersisted
  <2>1. loc.page = "work" /\ loc.project \in Projects /\ loc.thread \in Threads
    BY <1>9, <1>t, WorkPlace DEF UserMessagePersisted, Shown
  <2>2. OpsTyped({Op("title", loc.project, loc.thread, FALSE)})
    BY <1>o, <2>1 DEF OfThread
  <2>3. OpsTyped(ops')
    BY <1>9, <1>t, <2>2 DEF UserMessagePersisted, Sends, OpsTyped
  <2>4. RouteTyped(route')
    BY <1>9, <1>t, <2>1 DEF UserMessagePersisted, RouteTyped
  <2> QED
    BY <1>9, <1>a, <2>3, <2>4 DEF UserMessagePersisted, TypeOK, OpsTyped, RouteTyped
<1>q. ASSUME NEW k \in Keys, query' = [query EXCEPT ![k] = Fetched(@)]
      PROVE  QueryTyped(query')
  BY <1>q, <1>t, FetchedTyped DEF QueryTyped
<1>10. CASE Retry
  <2>1. CASE Render(loc, query, ops, [route EXCEPT !.requested = FALSE, !.opening = "idle"],
                    dialog)
    <3>1. RouteTyped([route EXCEPT !.requested = FALSE, !.opening = "idle"])
      BY <1>t DEF RouteTyped
    <3> QED
      BY <1>10, <2>1, <1>a, <1>t, <3>1, RenderType DEF Retry
  <2>2. CASE /\ loc.thread # None /\ query' = [query EXCEPT ![loc.thread] = Fetched(@)]
             /\ UNCHANGED <<loc, ops, route, dialog, born>>
    <3>1. loc.thread \in Keys
      BY <1>t, <2>2, WorkPlace DEF Keys
    <3>2. QueryTyped(query')
      BY <1>q, <2>2, <3>1
    <3> QED
      BY <1>10, <1>a, <2>2, <3>2 DEF Retry, TypeOK, QueryTyped
  <2> QED
    BY <1>10, <2>1, <2>2 DEF Retry
<1>11. ASSUME NEW k \in Keys, Refetch(k) PROVE TypeOK'
  <2>1. QueryTyped(query')
    BY <1>11, <1>q DEF Refetch
  <2> QED
    BY <1>11, <1>a, <2>1 DEF Refetch, TypeOK, QueryTyped
<1>12. \A p \in Projects, t \in Threads : ThreadAt(p, t) \in Places /\ ToolsAt(p) \in Places
  BY DEF Places
<1> QED
  BY <1>1, <1>2, <1>3, <1>4, <1>5, <1>6, <1>7, <1>8, <1>9, <1>10, <1>11, <1>12 DEF User, Places

LEMMA MissedTyped ==
  ASSUME OpsTyped(ops), NEW k
  PROVE  OpsTyped(Missed(k))
  BY DEF OpsTyped, Missed, OpsOf

LEMMA FetchesTyped ==
  ASSUME TypeOK, Fetches
  PROVE  TypeOK'
<1>t. /\ loc \in Places /\ QueryTyped(query) /\ OpsTyped(ops) /\ RouteTyped(route)
      /\ DialogTyped(dialog) /\ actions \in 0..MaxActions
  BY TypeParts
<1>1. ASSUME NEW k \in Keys, FetchRead(k) PROVE TypeOK'
  <2>1. QueryTyped(query')
    <3>1. [query[k] EXCEPT !.fetch = "read", !.answer = Answer(k)] \in EntryOf(k)
      BY <1>t, EntryData, AnswerTyped DEF EntryOf
    <3> QED
      BY <1>1, <1>t, <3>1 DEF FetchRead, QueryTyped
  <2> QED
    BY <1>1, <2>1 DEF FetchRead, TypeOK, QueryTyped, serverVars
<1>2. ASSUME NEW k \in Keys, FetchDone(k) PROVE TypeOK'
  <2>1. PICK ok \in BOOLEAN :
          /\ UNCHANGED actions \/ Mishap("fetch")
          /\ Render(loc, [query EXCEPT ![k] =
                     [query[k] EXCEPT !.fetch = "idle", !.answer = NoAnswer,
                        !.status = IF ok THEN "success" ELSE "error",
                        !.stale = @ /\ ~ok,
                        !.data = IF ok THEN query[k].answer.data ELSE @]],
                    IF ok THEN ops ELSE Missed(k), route, dialog)
    BY <1>2 DEF FetchDone
  <2> DEFINE e == [query[k] EXCEPT !.fetch = "idle", !.answer = NoAnswer,
                        !.status = IF ok THEN "success" ELSE "error",
                        !.stale = @ /\ ~ok,
                        !.data = IF ok THEN query[k].answer.data ELSE @]
             os == IF ok THEN ops ELSE Missed(k)
  <2>2. e \in EntryOf(k)
    <3>1. query[k] \in EntryOf(k) /\ NoAnswer \in [ok : BOOLEAN, data : DataOf(k)]
      BY <1>t, NoDataTyped DEF QueryTyped, NoAnswer
    <3>2. query[k].answer.data \in DataOf(k) /\ query[k].data \in DataOf(k)
      BY <1>t, EntryData
    <3>3. CASE ok
      BY <3>1, <3>2, <3>3 DEF EntryOf
    <3>4. CASE ~ok
      BY <3>1, <3>2, <3>4 DEF EntryOf
    <3> QED
      BY <3>3, <3>4
  <2>3. OpsTyped(os)
    BY <1>t, MissedTyped
  <2> HIDE DEF e, os
  <2>4. QueryTyped([query EXCEPT ![k] = e])
    BY <1>t, <2>2 DEF QueryTyped
  <2>5. actions' \in 0..MaxActions /\ UNCHANGED serverVars
    BY <1>2, <1>t, <2>1, WorkspaceShape DEF FetchDone, Mishap
  <2>6. Render(loc, [query EXCEPT ![k] = e], os, route, dialog)
    BY <2>1 DEF e, os
  <2> QED
    BY <1>t, <2>3, <2>4, <2>5, <2>6, RenderType
<1> QED
  BY <1>1, <1>2 DEF Fetches

LEMMA MutationsTyped ==
  ASSUME TypeOK, Mutations
  PROVE  TypeOK'
<1>t. /\ loc \in Places /\ QueryTyped(query) /\ OpsTyped(ops) /\ RouteTyped(route)
      /\ DialogTyped(dialog) /\ actions \in 0..MaxActions
  BY TypeParts
<1>o. ASSUME NEW o \in ops
      PROVE  /\ o.project \in Projects /\ o.kind \in OfThread \cup OfProject
             /\ o.kind \in OfThread => o.thread \in Threads
             /\ o.kind \in OfProject => o.thread = None
  BY <1>t DEF OpsTyped, OpsOf, OfThread, OfProject
<1>m. ASSUME NEW o \in ops PROVE OpsTyped(ops \ {o})
  BY <1>t DEF OpsTyped
<1>d. ASSUME NEW o \in ops PROVE Subject(o) \in Projects \cup {"create"}
  BY <1>o DEF Subject
<1>1. ASSUME NEW o \in ops, Apply(o) PROVE TypeOK'
  <2>1. projects' \in Seq(Projects)
    <3>1. projects \in Seq(Projects) /\ <<o.project>> \in Seq(Projects)
      BY <1>o DEF TypeOK
    <3>2. <<o.project>> \o projects \in Seq(Projects)
      BY <3>1, ConcatProperties
    <3>3. Without(projects, o.project) \in Seq(Projects)
      BY <3>1, WithoutSeq
    <3> QED
      BY <1>1, <3>1, <3>2, <3>3 DEF Apply
  <2>2. threads' \in [Projects -> Seq(Threads)]
    <3>1. threads[o.project] \in Seq(Threads) /\ threads \in [Projects -> Seq(Threads)]
      BY <1>o DEF TypeOK
    <3>2. CASE o.kind \in {"open", "new"}
      <4>1. <<o.thread>> \in Seq(Threads)
        BY <1>o, <3>2 DEF OfThread
      <4>2. <<o.thread>> \o threads[o.project] \in Seq(Threads)
        BY <3>1, <4>1, ConcatProperties
      <4>3. threads' = [threads EXCEPT ![o.project] = <<o.thread>> \o threads[o.project]]
        BY <1>1, <3>2 DEF Apply
      <4> QED
        BY <3>1, <4>2, <4>3
    <3>3. CASE o.kind = "delete"
      <4>1. Without(threads[o.project], o.thread) \in Seq(Threads)
        BY <3>1, WithoutSeq
      <4>2. threads' = [threads EXCEPT ![o.project] = Without(threads[o.project], o.thread)]
        BY <1>1, <3>3 DEF Apply
      <4> QED
        BY <3>1, <4>1, <4>2
    <3>4. CASE o.kind = "remove"
      <4>1. threads' = [threads EXCEPT ![o.project] = <<>>]
        BY <1>1, <3>4 DEF Apply
      <4>2. <<>> \in Seq(Threads)
        OBVIOUS
      <4> QED
        BY <3>1, <4>1, <4>2
    <3>5. CASE o.kind \notin {"open", "new", "delete", "remove"}
      BY <1>1, <3>1, <3>5 DEF Apply
    <3> QED
      BY <3>2, <3>3, <3>4, <3>5
  <2>3. named' \subseteq Threads
    BY <1>1, <1>o DEF Apply, TypeOK, OfThread
  <2>4. OpsTyped(ops')
    BY <1>1, <1>t, MovedTyped DEF Apply
  <2> QED
    BY <1>1, <2>1, <2>2, <2>3, <2>4 DEF Apply, TypeOK, OpsTyped
<1>2. ASSUME NEW o \in ops, Fails(o) PROVE TypeOK'
  <2>1. actions' \in 0..MaxActions
    BY <1>2, <1>t, WorkspaceShape DEF Fails, Mishap
  <2>2. RouteTyped(route')
    BY <1>2, <1>t DEF Fails, RouteTyped
  <2>3. DialogTyped(dialog')
    BY <1>2, <1>t, <1>d DEF Fails, DialogTyped
  <2>4. OpsTyped(ops')
    BY <1>2, <1>m DEF Fails
  <2> QED
    BY <1>2, <2>1, <2>2, <2>3, <2>4
       DEF Fails, TypeOK, OpsTyped, RouteTyped, DialogTyped, serverVars
<1>3. ASSUME NEW o \in ops, Succeeds(o) PROVE TypeOK'
  <2>1. CASE o.kind = "title"
    <3>1. QueryTyped(Titled(query, o))
      BY <1>o, <1>t, <2>1, TitledTyped DEF OfThread
    <3> QED
      BY <1>3, <1>m, <1>t, <2>1, <3>1, RenderType DEF Succeeds
  <2>2. CASE o.kind # "title"
    <3>1. QueryTyped(query')
      <4>1. o.kind = "remove" => QueryTyped([query EXCEPT ![o.project] = Absent])
        BY <1>o, <1>t, AbsentTyped DEF QueryTyped, Keys
      <4> QED
        BY <1>3, <1>t, <2>2, <4>1, InvalidatedTyped DEF Succeeds
    <3>2. OpsTyped(ops')
      BY <1>3, <1>t, <2>2, MovedTyped DEF Succeeds
    <3> QED
      BY <1>3, <2>2, <3>1, <3>2 DEF Succeeds, TypeOK, QueryTyped, OpsTyped, serverVars
  <2> QED
    BY <2>1, <2>2
<1>4. ASSUME NEW o \in ops, Finishes(o) PROVE TypeOK'
  <2> DEFINE q == IF o.kind = "delete" THEN [query EXCEPT ![o.thread] = Absent] ELSE query
             r == IF o.kind = "open" /\ o.active THEN [route EXCEPT !.opening = "success"]
                  ELSE route
             d == IF o.kind \in {"create", "rename"} /\ o.active
                  THEN [dialog EXCEPT !.pending = @ \ {Subject(o)},
                                      !.subject = IF @ = Subject(o) THEN None ELSE @]
                  ELSE dialog
  <2>1. QueryTyped(q)
    <3>1. o.kind = "delete" => o.thread \in Keys
      BY <1>o DEF Keys, OfThread
    <3> QED
      BY <1>t, <3>1, AbsentTyped DEF QueryTyped
  <2>2. RouteTyped(r)
    BY <1>t DEF RouteTyped
  <2>3. DialogTyped(d)
    BY <1>t DEF DialogTyped
  <2>4. Leads(o) \in Places
    BY LeadsPlace
  <2>5. Render(Leads(o), q, ops \ {o}, r, d) /\ UNCHANGED <<serverVars, actions>>
    BY <1>4 DEF Finishes
  <2> HIDE DEF q, r, d
  <2> QED
    BY <1>m, <1>t, <2>1, <2>2, <2>3, <2>4, <2>5, RenderType
<1> QED
  BY <1>1, <1>2, <1>3, <1>4 DEF Mutations

\* Addresses, cached lists, mutations, the route and the dialog are of the kinds
\* the code gives them, whatever it renders and whatever is answered.
THEOREM TypeCorrect == Spec => []TypeOK
<1>1. TypeOK /\ [Next]_vars => TypeOK'
  <2> SUFFICES ASSUME TypeOK, [Next]_vars PROVE TypeOK'
    OBVIOUS
  <2>1. CASE UNCHANGED vars
    BY <2>1 DEF TypeOK, vars, serverVars
  <2> QED
    BY <2>1, UserTyped, FetchesTyped, MutationsTyped DEF Next
<1> QED
  BY <1>1, InitType, PTL DEF Spec

-----------------------------------------------------------------------------
(* One opening per visit                                                   *)

\* A conversation that the mounted route is starting: it has been asked for, and
\* nothing has come of it yet; there is one.
Opening(o) == o.kind = "open" /\ o.active
OpeningOf(os, r) ==
    /\ \A o, x \in os : Opening(o) /\ Opening(x) => o = x
    /\ \A o \in os : Opening(o) => r.requested /\ r.opening = "pending"

LEMMA OpeningRender ==
  ASSUME NEW l, NEW q, NEW o, OpsTyped(o), NEW r, RouteTyped(r), NEW d, OpeningOf(o, r),
         Render(l, q, o, r, d)
  PROVE  OpeningOf(ops', route')
<1>1. PICK kinds \in SUBSET {"open", "create", "rename"}, kept \in {r, NewRoute} :
        /\ Continues(o, r, kinds, kept) /\ Starts(Landed(l, q), o, kinds, kept)
  BY RenderIs
<1>2. RouteTyped(kept)
  <2>1. RouteTyped(NewRoute)
    BY DEF RouteTyped, NewRoute
  <2> QED
    BY <1>1, <2>1 DEF Continues
<1> DEFINE left == Detached(o, kinds)
<1>3. OpeningOf(left, kept)
  <2>1. CASE "open" \in kinds
    <3>1. ASSUME NEW y \in left PROVE ~Opening(y)
      <4>1. PICK x \in o : y = IF x.kind \in kinds THEN [x EXCEPT !.active = FALSE] ELSE x
        BY DEF Detached
      <4>2. CASE x.kind \in kinds
        BY <4>1, <4>2 DEF Opening
      <4> QED
        BY <2>1, <4>1, <4>2 DEF Opening
    <3> QED
      BY <3>1 DEF OpeningOf
  <2>2. CASE "open" \notin kinds /\ kept = r
    <3>1. ASSUME NEW y \in left, Opening(y) PROVE y \in o
      <4>1. PICK x \in o : y = IF x.kind \in kinds THEN [x EXCEPT !.active = FALSE] ELSE x
        BY DEF Detached
      <4>2. CASE x.kind \in kinds
        <5>1. y.active = FALSE
          BY <4>1, <4>2 DEF OpsTyped, OpsOf
        <5> QED
          BY <3>1, <5>1 DEF Opening
      <4> QED
        BY <4>1, <4>2
    <3> QED
      BY <2>2, <3>1 DEF OpeningOf
  <2> QED
    BY <1>1, <2>1, <2>2 DEF Continues
<1> HIDE DEF left
<1>4. CASE route' = kept /\ ops' = left /\ born' = born
  BY <1>3, <1>4
<1>5. ASSUME NEW x, ~kept.requested, ops' = left \cup {x},
             route' = [kept EXCEPT !.requested = TRUE, !.opening = "pending"]
      PROVE  OpeningOf(ops', route')
  <2>1. route'.requested /\ route'.opening = "pending"
    BY <1>2, <1>5 DEF RouteTyped
  <2>2. \A y \in left : ~Opening(y)
    BY <1>3, <1>5 DEF OpeningOf
  <2> QED
    BY <1>5, <2>1, <2>2 DEF OpeningOf
<1> QED
  BY <1>1, <1>4, <1>5 DEF Starts, left

\* Other mutations, fewer of them, and other phases change nothing.
LEMMA OpeningFewer ==
  ASSUME NEW os, NEW xs, NEW r, OpeningOf(os, r), \A x \in xs : Opening(x) => x \in os
  PROVE  OpeningOf(xs, r)
  BY DEF OpeningOf

Phased(os, S, ph) == {IF x \in S THEN [x EXCEPT !.phase = ph] ELSE x : x \in os}

LEMMA OpeningPhases ==
  ASSUME NEW os, OpsTyped(os), NEW r, OpeningOf(os, r), NEW S \in SUBSET os, NEW ph
  PROVE  OpeningOf(Phased(os, S, ph), r)
<1> DEFINE f(x) == IF x \in S THEN [x EXCEPT !.phase = ph] ELSE x
<1>1. ASSUME NEW x \in os, Opening(f(x)) PROVE Opening(x)
  BY <1>1 DEF OpsTyped, OpsOf, Opening
<1> HIDE DEF f
<1>2. OpeningOf({f(x) : x \in os}, r)
  <2>1. ASSUME NEW y \in {f(x) : x \in os}, NEW z \in {f(x) : x \in os},
               Opening(y), Opening(z)
        PROVE  y = z /\ r.requested /\ r.opening = "pending"
    BY <1>1, <2>1 DEF OpeningOf
  <2> QED
    BY <2>1 DEF OpeningOf
<1> QED
  BY <1>2 DEF f, Phased

\* The ways the phases of mutations change.
LEMMA MovedPhase ==
  ASSUME NEW o \in ops, NEW ph
  PROVE  Moved(o, ph) = Phased(ops, {o}, ph)
  BY DEF Moved, Phased

FailedFor(k) == {x \in ops : x.phase = "refetch" /\ x.project = k}

LEMMA MissedPhase ==
  ASSUME NEW k
  PROVE  Missed(k) = Phased(ops, FailedFor(k), "missed")
  BY DEF Missed, Phased, FailedFor

LEMMA OpeningMoved ==
  ASSUME OpsTyped(ops), OpeningOf(ops, route), NEW o \in ops, NEW ph
  PROVE  OpeningOf(Moved(o, ph), route)
<1>1. PICK S \in SUBSET ops : S = {o}
  OBVIOUS
<1>2. OpeningOf(Phased(ops, S, ph), route)
  BY OpeningPhases
<1> QED
  BY <1>1, <1>2, MovedPhase

LEMMA OpeningMissed ==
  ASSUME OpsTyped(ops), OpeningOf(ops, route), NEW k
  PROVE  OpeningOf(Missed(k), route)
<1>1. FailedFor(k) \in SUBSET ops
  BY DEF FailedFor
<1> QED
  BY <1>1, MissedPhase, OpeningPhases

LEMMA OpeningStep ==
  ASSUME TypeOK, OpeningOf(ops, route), Next
  PROVE  OpeningOf(ops', route')
<1>t. OpsTyped(ops) /\ RouteTyped(route)
  BY TypeParts
<1>s. ASSUME NEW x, x.kind # "open", ops' = Sends(x), UNCHANGED route
      PROVE  OpeningOf(ops', route')
  BY <1>s, OpeningFewer DEF Sends, Opening
<1>1. ASSUME NEW l, GoTo(l) PROVE OpeningOf(ops', route')
  BY <1>1, <1>t, OpeningRender DEF GoTo
<1>2. ASSUME NEW p, NEW t,
             \/ NewThread(p, t) \/ DeleteThread(p, t) \/ SubmitName(p)
             \/ RemoveProject(p) \/ FirstProject(p)
      PROVE  OpeningOf(ops', route')
  <2>1. \A kind, a, u : Op(kind, p, u, a).kind = kind
    BY DEF Op
  <2>2. route' = route /\ \E x : x.kind # "open" /\ ops' = Sends(x)
    <3>1. ASSUME NEW kind, kind # "open", NEW u, NEW a, ops' = Sends(Op(kind, p, u, a))
          PROVE  \E x : x.kind # "open" /\ ops' = Sends(x)
      BY <3>1, <2>1
    <3>2. CASE NewThread(p, t)
      BY <3>1, <3>2 DEF NewThread
    <3>3. CASE DeleteThread(p, t)
      BY <3>1, <3>3 DEF DeleteThread
    <3>4. CASE SubmitName(p)
      BY <3>1, <3>4 DEF SubmitName
    <3>5. CASE RemoveProject(p)
      BY <3>1, <3>5 DEF RemoveProject
    <3>6. CASE FirstProject(p)
      BY <3>1, <3>6 DEF FirstProject
    <3> QED
      BY <1>2, <3>2, <3>3, <3>4, <3>5, <3>6
  <2> QED
    BY <1>s, <2>2
<1>3. ASSUME \/ \E s \in {"create"} \cup Projects : OpenDialog(s)
             \/ CloseDialog \/ \E k \in Keys : Refetch(k) \/ FetchRead(k)
      PROVE  OpeningOf(ops', route')
  BY <1>3 DEF OpenDialog, CloseDialog, Refetch, FetchRead
<1>4. CASE UserMessagePersisted
  <2>1. OpeningOf(ops, route')
    BY <1>4, <1>t DEF UserMessagePersisted, OpeningOf, RouteTyped
  <2>2. ops' = Sends(Op("title", loc.project, loc.thread, FALSE))
    BY <1>4 DEF UserMessagePersisted
  <2> QED
    BY <2>1, <2>2, OpeningFewer DEF Sends, Op, Opening
<1>5. CASE Retry
  <2> DEFINE r == [route EXCEPT !.requested = FALSE, !.opening = "idle"]
  <2>1. CASE route.opening = "error" /\ Render(loc, query, ops, r, dialog)
    <3>1. RouteTyped(r)
      BY <1>t DEF RouteTyped
    <3>2. OpeningOf(ops, r)
      BY <2>1 DEF OpeningOf
    <3> QED
      BY <1>t, <2>1, <3>1, <3>2, OpeningRender
  <2> QED
    BY <1>5, <2>1 DEF Retry
<1>6. ASSUME NEW k \in Keys, FetchDone(k) PROVE OpeningOf(ops', route')
  <2>1. PICK ok, q : Render(loc, q, IF ok THEN ops ELSE Missed(k), route, dialog)
    BY <1>6 DEF FetchDone
  <2>2. OpeningOf(Missed(k), route)
    BY <1>t, OpeningMissed
  <2>3. OpsTyped(Missed(k))
    BY <1>t, MissedTyped
  <2> QED
    BY <1>t, <2>1, <2>2, <2>3, OpeningRender
<1>7. ASSUME NEW o \in ops, Apply(o) PROVE OpeningOf(ops', route')
  BY <1>7, <1>t, OpeningMoved DEF Apply
<1>8. ASSUME NEW o \in ops, Fails(o) PROVE OpeningOf(ops', route')
  <2>1. CASE Opening(o)
    BY <1>8, <2>1 DEF Fails, OpeningOf
  <2>2. CASE ~Opening(o)
    BY <1>8, <2>2 DEF Fails, OpeningOf, Opening
  <2> QED
    BY <2>1, <2>2
<1>9. ASSUME NEW o \in ops, Succeeds(o) PROVE OpeningOf(ops', route')
  <2>1. CASE o.kind = "title"
    <3>1. OpeningOf(ops \ {o}, route) /\ OpsTyped(ops \ {o})
      BY <1>t, OpeningFewer DEF OpsTyped
    <3> QED
      BY <1>9, <1>t, <2>1, <3>1, OpeningRender DEF Succeeds
  <2>2. CASE o.kind # "title"
    <3>1. route' = route /\ \E ph : ops' = Moved(o, ph)
      BY <1>9, <2>2 DEF Succeeds
    <3> QED
      BY <1>t, <3>1, OpeningMoved
  <2> QED
    BY <2>1, <2>2
<1>10. ASSUME NEW o \in ops, Finishes(o) PROVE OpeningOf(ops', route')
  <2> DEFINE r == IF o.kind = "open" /\ o.active THEN [route EXCEPT !.opening = "success"]
                  ELSE route
  <2>1. PICK q, d : Render(Leads(o), q, ops \ {o}, r, d)
    BY <1>10 DEF Finishes
  <2>2. RouteTyped(r)
    BY <1>t DEF RouteTyped
  <2>3. OpeningOf(ops \ {o}, r) /\ OpsTyped(ops \ {o})
    BY <1>t DEF OpeningOf, Opening, OpsTyped
  <2> HIDE DEF r
  <2> QED
    BY <2>1, <2>2, <2>3, OpeningRender
<1> QED
  BY <1>1, <1>2, <1>3, <1>4, <1>5, <1>6, <1>7, <1>8, <1>9, <1>10
     DEF Next, User, Fetches, Mutations

\* However often WorkspaceRoute renders, retries and redirects, one visit has one
\* conversation on its way.
THEOREM VisitOpensOne == Spec => []OneOpening
<1>1. Init => OpeningOf(ops, route)
  BY DEF Init, OpeningOf
<1>2. TypeOK /\ OpeningOf(ops, route) /\ [Next]_vars => OpeningOf(ops, route)'
  BY OpeningStep DEF vars
<1>3. OpeningOf(ops, route) => OneOpening
  BY DEF OpeningOf, OneOpening, Opening
<1> QED
  BY <1>1, <1>2, <1>3, TypeCorrect, PTL DEF Spec

-----------------------------------------------------------------------------
(* Titles                                                                  *)

\* Data comes with a success; a query that is asked anew has no answer yet.
QueryOf(q) ==
    \A k \in Keys : /\ q[k].status = "success" => q[k].data.loaded
                    /\ q[k].answer.ok => q[k].answer.data.loaded

LEMMA FetchedEntry ==
  ASSUME NEW k \in Keys, NEW e \in EntryOf(k)
  PROVE  /\ Fetched(e).fetch = "sent" /\ Fetched(e).data = e.data
         /\ Fetched(e).answer = NoAnswer
         /\ Fetched(e).status \in {e.status, "pending"}
  BY DEF Fetched, EntryOf

LEMMA MountedEntry ==
  ASSUME NEW k \in Keys, NEW l, NEW q
  PROVE  Mounted(l, q)[k] \in {q[k], Fetched(q[k])}
  BY DEF Mounted

LEMMA InvalidatedEntry ==
  ASSUME NEW k \in Keys, NEW ks, NEW q
  PROVE  /\ Invalidated(q, ks)[k] \in {q[k], Fetched(q[k]), [q[k] EXCEPT !.stale = TRUE]}
         /\ k \in ks /\ k \in Observed(loc, q) => Invalidated(q, ks)[k] = Fetched(q[k])
  BY DEF Invalidated

LEMMA QueryAsked ==
  ASSUME NEW q, QueryTyped(q), QueryOf(q), NEW z,
         \A k \in Keys : z[k] \in {q[k], Fetched(q[k]), [q[k] EXCEPT !.stale = TRUE], Absent}
  PROVE  QueryOf(z)
<1> SUFFICES ASSUME NEW k \in Keys
             PROVE  /\ z[k].status = "success" => z[k].data.loaded
                    /\ z[k].answer.ok => z[k].answer.data.loaded
  BY DEF QueryOf
<1>1. q[k] \in EntryOf(k)
  BY DEF QueryTyped
<1>2. CASE z[k] = q[k]
  BY <1>2 DEF QueryOf
<1>3. CASE z[k] = Fetched(q[k])
  BY <1>1, <1>3, FetchedEntry DEF QueryOf, NoAnswer
<1>4. CASE z[k] = [q[k] EXCEPT !.stale = TRUE]
  BY <1>1, <1>4 DEF QueryOf, EntryOf
<1>5. CASE z[k] = Absent
  BY <1>5 DEF Absent, NoAnswer
<1> QED
  BY <1>2, <1>3, <1>4, <1>5

LEMMA QueryRender ==
  ASSUME NEW l, NEW q, QueryTyped(q), QueryOf(q), NEW o, NEW r, NEW d, Render(l, q, o, r, d)
  PROVE  QueryOf(query')
  BY RenderIs, MountedEntry, QueryAsked

\* What an answer puts into the cache.
Answered(k, ok) ==
    [query[k] EXCEPT !.fetch = "idle", !.answer = NoAnswer,
                     !.status = IF ok THEN "success" ELSE "error",
                     !.stale = @ /\ ~ok,
                     !.data = IF ok THEN query[k].answer.data ELSE @]

LEMMA FetchDoneIs ==
  ASSUME TypeOK, NEW k \in Keys, FetchDone(k)
  PROVE  \E ok, q :
           /\ ok \in BOOLEAN
           /\ q = [query EXCEPT ![k] = Answered(k, ok)] /\ QueryTyped(q)
           /\ query[k].fetch = "read" /\ (ok => query[k].answer.ok)
           /\ Answered(k, ok).data = IF ok THEN query[k].answer.data ELSE query[k].data
           /\ Answered(k, ok).status = IF ok THEN "success" ELSE "error"
           /\ Answered(k, ok).answer = NoAnswer /\ Answered(k, ok).fetch = "idle"
           /\ Render(loc, q, IF ok THEN ops ELSE Missed(k), route, dialog)
           /\ UNCHANGED serverVars
<1>1. PICK ok \in BOOLEAN :
        /\ query[k].fetch = "read" /\ (ok => query[k].answer.ok)
        /\ Render(loc, [query EXCEPT ![k] = Answered(k, ok)],
                  IF ok THEN ops ELSE Missed(k), route, dialog)
        /\ UNCHANGED serverVars
  BY DEF FetchDone, Answered, TypeOK, EntryOf
<1> DEFINE q == [query EXCEPT ![k] = Answered(k, ok)]
<1>2. /\ query[k] \in EntryOf(k) /\ NoAnswer \in [ok : BOOLEAN, data : DataOf(k)]
      /\ query[k].answer.data \in DataOf(k)
  BY NoDataTyped, TypeParts, EntryData DEF QueryTyped, NoAnswer
<1>3. ASSUME ok
      PROVE  /\ QueryTyped(q)
             /\ Answered(k, ok).data = IF ok THEN query[k].answer.data ELSE query[k].data
             /\ Answered(k, ok).status = IF ok THEN "success" ELSE "error"
             /\ Answered(k, ok).answer = NoAnswer /\ Answered(k, ok).fetch = "idle"
  <2>1. Answered(k, ok) = [query[k] EXCEPT !.fetch = "idle", !.answer = NoAnswer,
                             !.status = "success", !.stale = FALSE,
                             !.data = query[k].answer.data]
    BY <1>3 DEF Answered
  <2>2. Answered(k, ok) \in EntryOf(k)
    BY <1>2, <2>1 DEF EntryOf
  <2>3. QueryTyped([query EXCEPT ![k] = Answered(k, ok)])
    BY <2>2, TypeParts DEF QueryTyped
  <2>4. /\ Answered(k, ok).data = query[k].answer.data
        /\ Answered(k, ok).status = "success"
        /\ Answered(k, ok).answer = NoAnswer /\ Answered(k, ok).fetch = "idle"
    BY <1>2, <2>1 DEF EntryOf
  <2> QED
    BY <1>3, <2>3, <2>4
<1>4. ASSUME ~ok
      PROVE  /\ QueryTyped(q)
             /\ Answered(k, ok).data = IF ok THEN query[k].answer.data ELSE query[k].data
             /\ Answered(k, ok).status = IF ok THEN "success" ELSE "error"
             /\ Answered(k, ok).answer = NoAnswer /\ Answered(k, ok).fetch = "idle"
  <2>1. Answered(k, ok) = [query[k] EXCEPT !.fetch = "idle", !.answer = NoAnswer,
                             !.status = "error", !.stale = query[k].stale,
                             !.data = query[k].data]
    BY <1>2, <1>4 DEF Answered, EntryOf
  <2>2. Answered(k, ok) \in EntryOf(k)
    BY <1>2, <2>1 DEF EntryOf
  <2>3. QueryTyped([query EXCEPT ![k] = Answered(k, ok)])
    BY <2>2, TypeParts DEF QueryTyped
  <2>4. /\ Answered(k, ok).data = query[k].data
        /\ Answered(k, ok).status = "error"
        /\ Answered(k, ok).answer = NoAnswer /\ Answered(k, ok).fetch = "idle"
    BY <1>2, <2>1 DEF EntryOf
  <2> QED
    BY <1>4, <2>3, <2>4
<1>5. /\ QueryTyped(q)
      /\ Answered(k, ok).data = IF ok THEN query[k].answer.data ELSE query[k].data
      /\ Answered(k, ok).status = IF ok THEN "success" ELSE "error"
      /\ Answered(k, ok).answer = NoAnswer /\ Answered(k, ok).fetch = "idle"
  BY <1>3, <1>4
<1> QED
  BY <1>1, <1>5

LEMMA TitledEntry ==
  ASSUME NEW q, QueryTyped(q), NEW o, o.thread \in Threads, NEW k \in Keys
  PROVE  /\ Titled(q, o)[k].answer = q[k].answer /\ Titled(q, o)[k].fetch = q[k].fetch
         /\ Titled(q, o)[k].data.loaded = q[k].data.loaded
         /\ Titled(q, o)[k].data.ids = q[k].data.ids
         /\ q[k].data.named \subseteq Titled(q, o)[k].data.named
         /\ \/ Titled(q, o)[k].status = q[k].status
            \/ Titled(q, o)[k].status = "success" /\ q[k].data.loaded
         /\ k = o.thread /\ q[k].data.loaded => o.thread \in Titled(q, o)[k].data.named
<1>1. q[k] \in EntryOf(k)
  BY DEF QueryTyped
<1>2. CASE k \in {o.project, o.thread} /\ q[k].data.loaded
  <2>1. PICK ts \in SUBSET Threads :
          /\ ts = IF k = o.thread \/ Lists(q, k, o.thread)
                  THEN q[k].data.named \cup {o.thread} ELSE q[k].data.named
          /\ Titled(q, o)[k] = [q[k] EXCEPT !.status = "success", !.stale = FALSE,
                                            !.data.named = ts]
    <3>1. q[k].data.named \in SUBSET Threads
      BY <1>1 DEF EntryOf, DataOf
    <3> QED
      BY <1>2, <3>1 DEF Titled
  <2>2. q[k].data \in DataOf(k)
    BY <1>1 DEF EntryOf
  <2>3. /\ Titled(q, o)[k].answer = q[k].answer /\ Titled(q, o)[k].fetch = q[k].fetch
        /\ Titled(q, o)[k].status = "success"
        /\ Titled(q, o)[k].data = [q[k].data EXCEPT !.named = ts]
    BY <1>1, <2>1 DEF EntryOf
  <2>4. /\ Titled(q, o)[k].data.loaded = q[k].data.loaded
        /\ Titled(q, o)[k].data.ids = q[k].data.ids
        /\ Titled(q, o)[k].data.named = ts
    BY <2>2, <2>3 DEF DataOf
  <2> QED
    BY <1>2, <2>1, <2>3, <2>4
<1>3. CASE ~(k \in {o.project, o.thread} /\ q[k].data.loaded)
  <2>1. Titled(q, o)[k] = q[k]
    BY <1>3 DEF Titled
  <2> QED
    BY <1>3, <2>1
<1> QED
  BY <1>2, <1>3

\* What each step does to the cache.
LEMMA QueryStep ==
  ASSUME TypeOK, QueryOf(query), Next
  PROVE  QueryOf(query')
<1>t. /\ loc \in Places /\ QueryTyped(query) /\ OpsTyped(ops)
  BY TypeParts
<1>o. ASSUME NEW o \in ops
      PROVE  /\ o.project \in Projects /\ (o.kind \in OfThread => o.thread \in Threads)
  BY <1>t DEF OpsTyped, OpsOf, OfThread, OfProject
<1>a. ASSUME NEW k \in Keys, query' = [query EXCEPT ![k] = Fetched(@)]
      PROVE  QueryOf(query')
  <2>1. \A j \in Keys : query'[j] \in {query[j], Fetched(query[j])}
    BY <1>a, <1>t DEF QueryTyped
  <2> QED
    BY <1>t, <2>1, QueryAsked
<1>1. ASSUME NEW l, GoTo(l) PROVE QueryOf(query')
  BY <1>1, <1>t, QueryRender DEF GoTo
<1>2. ASSUME NEW p, NEW t, NEW s,
             \/ NewThread(p, t) \/ DeleteThread(p, t) \/ SubmitName(p)
             \/ RemoveProject(p) \/ FirstProject(p) \/ OpenDialog(s) \/ CloseDialog
             \/ UserMessagePersisted
      PROVE  QueryOf(query')
  BY <1>2 DEF NewThread, DeleteThread, SubmitName, RemoveProject, FirstProject, OpenDialog,
              CloseDialog, UserMessagePersisted
<1>3. ASSUME NEW o \in ops, Apply(o) \/ Fails(o) PROVE QueryOf(query')
  BY <1>3 DEF Apply, Fails
<1>4. CASE Retry
  <2>1. CASE \E r : Render(loc, query, ops, r, dialog)
    BY <1>t, <2>1, QueryRender
  <2>2. CASE loc.thread # None /\ query' = [query EXCEPT ![loc.thread] = Fetched(@)]
    <3>1. loc.thread \in Keys
      BY <1>t, <2>2, WorkPlace DEF Keys
    <3> QED
      BY <1>a, <2>2, <3>1
  <2> QED
    BY <1>4, <2>1, <2>2 DEF Retry
<1>5. ASSUME NEW k \in Keys, Refetch(k) PROVE QueryOf(query')
  BY <1>5, <1>a DEF Refetch
<1>6. ASSUME NEW k \in Keys, FetchRead(k) PROVE QueryOf(query')
  <2>1. query' = [query EXCEPT ![k].fetch = "read", ![k].answer = Answer(k)]
    BY <1>6 DEF FetchRead
  <2>2. Answer(k).data.loaded
    BY KeysDiffer DEF Answer, Keys
  <2>3. /\ query'[k].answer = Answer(k) /\ query'[k].status = query[k].status
        /\ query'[k].data = query[k].data
    BY <1>t, <2>1 DEF QueryTyped, EntryOf
  <2>4. \A j \in Keys \ {k} : query'[j] = query[j]
    BY <1>t, <2>1 DEF QueryTyped
  <2> QED
    BY <2>2, <2>3, <2>4 DEF QueryOf
<1>7. ASSUME NEW k \in Keys, FetchDone(k) PROVE QueryOf(query')
  <2>1. PICK ok, q :
           /\ ok \in BOOLEAN
           /\ q = [query EXCEPT ![k] = Answered(k, ok)] /\ QueryTyped(q)
           /\ (ok => query[k].answer.ok)
           /\ Answered(k, ok).data = IF ok THEN query[k].answer.data ELSE query[k].data
           /\ Answered(k, ok).status = IF ok THEN "success" ELSE "error"
           /\ Answered(k, ok).answer = NoAnswer
           /\ Render(loc, q, IF ok THEN ops ELSE Missed(k), route, dialog)
    BY <1>7, FetchDoneIs
  <2>2. q[k] = Answered(k, ok) /\ \A j \in Keys \ {k} : q[j] = query[j]
    BY <1>t, <2>1 DEF QueryTyped
  <2>3. QueryOf(q)
    BY <2>1, <2>2 DEF QueryOf, NoAnswer
  <2> QED
    BY <2>1, <2>3, QueryRender
<1>8. ASSUME NEW o \in ops, Succeeds(o) PROVE QueryOf(query')
  <2>1. CASE o.kind = "title"
    <3>1. QueryTyped(Titled(query, o))
      BY <1>o, <1>t, <2>1, TitledTyped DEF OfThread
    <3>2. QueryOf(Titled(query, o))
      BY <1>o, <1>t, <2>1, TitledEntry DEF OfThread, QueryOf
    <3> QED
      BY <1>8, <2>1, <3>1, <3>2, QueryRender DEF Succeeds
  <2>2. CASE o.kind # "title"
    <3> DEFINE q == IF o.kind = "remove" THEN [query EXCEPT ![o.project] = Absent] ELSE query
    <3>1. query' = Invalidated(q, Outdated(o))
      BY <1>8, <2>2 DEF Succeeds
    <3>2. \A k \in Keys : q[k] \in {query[k], Absent}
      BY <1>t DEF QueryTyped
    <3>3. QueryTyped(q)
      BY <1>t, <1>o, AbsentTyped DEF QueryTyped
    <3> HIDE DEF q
    <3>4. QueryOf(q)
      BY <1>t, <3>2, QueryAsked
    <3> QED
      BY <3>1, <3>3, <3>4, InvalidatedEntry, QueryAsked
  <2> QED
    BY <2>1, <2>2
<1>9. ASSUME NEW o \in ops, Finishes(o) PROVE QueryOf(query')
  <2> DEFINE q == IF o.kind = "delete" THEN [query EXCEPT ![o.thread] = Absent] ELSE query
  <2>1. PICK r, d : Render(Leads(o), q, ops \ {o}, r, d)
    BY <1>9 DEF Finishes
  <2>2. \A k \in Keys : q[k] \in {query[k], Absent}
    BY <1>t DEF QueryTyped
  <2>3. QueryTyped(q)
    BY <1>t, <1>o, AbsentTyped DEF QueryTyped
  <2> HIDE DEF q
  <2>4. QueryOf(q)
    BY <1>t, <2>2, QueryAsked
  <2> QED
    BY <2>1, <2>3, <2>4, QueryRender
<1> QED
  BY <1>1, <1>2, <1>3, <1>4, <1>5, <1>6, <1>7, <1>8, <1>9 DEF Next, User, Fetches, Mutations

\* The bootstrap knows the title, now and after its next answer.
KnownIn(q, t) ==
    /\ q[t].data.loaded => t \in q[t].data.named
    /\ q[t].answer.ok => t \in q[t].answer.data.named

\* A title that is on its way is remembered, by a route that is there; one that
\* was given is on its way to the page, or known there.
TitleOf(os, r, q, l, nm) ==
    /\ \A o \in os : o.kind = "title" => o.thread \in r.titled /\ l.page = "work"
    /\ \A t \in nm :
         \/ \E o \in os : o.kind = "title" /\ o.thread = t /\ o.phase = "applied"
         \/ KnownIn(q, t)

LEMMA KnownAsked ==
  ASSUME NEW t \in Threads, NEW q, QueryTyped(q), KnownIn(q, t), NEW z,
         z[t] \in {q[t], Fetched(q[t]), [q[t] EXCEPT !.stale = TRUE], Absent}
  PROVE  KnownIn(z, t)
<1>1. t \in Keys /\ q[t] \in EntryOf(t)
  BY DEF QueryTyped, Keys
<1>2. CASE z[t] = q[t]
  BY <1>2 DEF KnownIn
<1>3. CASE z[t] = Fetched(q[t])
  BY <1>1, <1>3, FetchedEntry DEF KnownIn, NoAnswer
<1>4. CASE z[t] = [q[t] EXCEPT !.stale = TRUE]
  BY <1>1, <1>4 DEF KnownIn, EntryOf
<1>5. CASE z[t] = Absent
  BY <1>5 DEF KnownIn, Absent, NoAnswer, NoData
<1> QED
  BY <1>2, <1>3, <1>4, <1>5

\* The page of a conversation or of a project leads to one of these.
LEMMA WorkStays ==
  ASSUME NEW l, l.page = "work", NEW q
  PROVE  Landed(l, q).page = "work"
<1>1. Entered(l, q) = l
  BY DEF Entered
<1>2. Bounced(l, q).page = "work"
  BY DEF Bounced, ProjectAt
<1>3. ASSUME NEW m, m.page = "work" PROVE Forwarded(m, q).page = "work"
  BY <1>3 DEF Forwarded, ThreadAt
<1> QED
  BY <1>1, <1>2, <1>3 DEF Landed

LEMMA TitleRender ==
  ASSUME "retitle" \notin Mishaps, named \subseteq Threads,
         NEW l, NEW q, QueryTyped(q), NEW o, OpsTyped(o), NEW r, RouteTyped(r), NEW d,
         TitleOf(o, r, q, loc, named), Render(l, q, o, r, d), named' = named
  PROVE  TitleOf(ops', route', query', loc', named')
<1>1. PICK kinds \in SUBSET {"open", "create", "rename"}, kept \in {r, NewRoute} :
        /\ Continues(o, r, kinds, kept) /\ Starts(Landed(l, q), o, kinds, kept)
        /\ "open" \in kinds => loc.page # "work" \/ l.page # "work"
  BY RenderIs
<1>2. MayForget(l, o) /\ loc' = Landed(l, q) /\ query' = Mounted(Landed(l, q), q)
  BY RenderIs
<1> DEFINE left == Detached(o, kinds)
<1>3. /\ \A y \in left : y.kind = "title" => y \in o
      /\ \A x \in o : x.kind = "title" => x \in left
  <2>1. ASSUME NEW y \in left, y.kind = "title" PROVE y \in o
    <3>1. PICK x \in o : y = IF x.kind \in kinds THEN [x EXCEPT !.active = FALSE] ELSE x
      BY DEF Detached
    <3>2. CASE x.kind \in kinds
      <4>1. y.kind = x.kind
        BY <3>1, <3>2 DEF OpsTyped, OpsOf
      <4> QED
        BY <2>1, <3>2, <4>1
    <3> QED
      BY <3>1, <3>2
  <2>2. ASSUME NEW x \in o, x.kind = "title" PROVE x \in left
    BY <2>2 DEF Detached
  <2> QED
    BY <2>1, <2>2
<1>4. /\ \A y \in ops' : y.kind = "title" => y \in o
      /\ \A x \in o : x.kind = "title" => x \in ops'
  BY <1>1, <1>3 DEF Starts, Op
<1> HIDE DEF left
<1>5. ASSUME NEW x \in o, x.kind = "title"
      PROVE  x.thread \in route'.titled /\ loc'.page = "work"
  <2>1. loc.page = "work" /\ x.thread \in r.titled
    BY <1>5 DEF TitleOf
  <2>2. l.page = "work"
    BY <1>2, <1>5, <2>1 DEF MayForget
  <2>3. kept = r
    BY <1>1, <2>1, <2>2 DEF Continues
  <2>4. route'.titled = r.titled
    BY <1>1, <2>3 DEF Starts, RouteTyped
  <2> QED
    BY <1>2, <2>1, <2>2, <2>4, WorkStays
<1>6. ASSUME NEW t \in named, KnownIn(q, t) PROVE KnownIn(query', t)
  <2>1. t \in Threads /\ t \in Keys
    BY DEF Keys
  <2> QED
    BY <1>2, <1>6, <2>1, MountedEntry, KnownAsked
<1> QED
  BY <1>4, <1>5, <1>6 DEF TitleOf

\* Other mutations come, go and move on; titles stay as they are.
LEMMA TitleOthers ==
  ASSUME NEW os, NEW xs, NEW r, NEW q, NEW l, TitleOf(os, r, q, l, named),
         \A x \in xs : x.kind = "title"
           => \E o \in os : o.kind = "title" /\ o.thread = x.thread,
         \A o \in os : o.kind = "title" /\ o.phase = "applied" => o \in xs
  PROVE  TitleOf(xs, r, q, l, named)
  BY DEF TitleOf

LEMMA TitlePhases ==
  ASSUME OpsTyped(ops), NEW S \in SUBSET ops, NEW ph, NEW r, NEW q, NEW l,
         TitleOf(ops, r, q, l, named),
         \A x \in S : x.kind = "title" => x.phase # "applied"
  PROVE  TitleOf(Phased(ops, S, ph), r, q, l, named)
<1>1. ASSUME NEW x \in Phased(ops, S, ph), x.kind = "title"
      PROVE  \E o \in ops : o.kind = "title" /\ o.thread = x.thread
  <2>1. PICK o \in ops : x = IF o \in S THEN [o EXCEPT !.phase = ph] ELSE o
    BY DEF Phased
  <2>2. x.kind = o.kind /\ x.thread = o.thread
    BY <2>1 DEF OpsTyped, OpsOf
  <2> QED
    BY <1>1, <2>2
<1>2. ASSUME NEW o \in ops, o.kind = "title", o.phase = "applied"
      PROVE  o \in Phased(ops, S, ph)
  BY <1>2 DEF Phased
<1> QED
  BY <1>1, <1>2, TitleOthers

LEMMA TitleStep ==
  ASSUME "retitle" \notin Mishaps, TypeOK, QueryOf(query),
         TitleOf(ops, route, query, loc, named), Next
  PROVE  TitleOf(ops', route', query', loc', named')
<1>t. /\ loc \in Places /\ QueryTyped(query) /\ OpsTyped(ops) /\ RouteTyped(route)
      /\ named \subseteq Threads
  BY TypeParts
<1>k. Threads \subseteq Keys /\ Projects \subseteq Keys
  BY DEF Keys
<1>o. ASSUME NEW o \in ops
      PROVE  /\ o.project \in Projects /\ (o.kind \in OfThread => o.thread \in Threads)
  BY <1>t DEF OpsTyped, OpsOf, OfThread, OfProject
<1>s. ASSUME NEW x, x.kind # "title", ops' = Sends(x), UNCHANGED <<loc, query, route, named>>
      PROVE  TitleOf(ops', route', query', loc', named')
  BY <1>s, TitleOthers DEF Sends
<1>a. ASSUME NEW k \in Keys, query' = [query EXCEPT ![k] = Fetched(@)],
             UNCHANGED <<loc, ops, route, named>>
      PROVE  TitleOf(ops', route', query', loc', named')
  <2>1. \A j \in Keys : query'[j] \in {query[j], Fetched(query[j])}
    BY <1>a, <1>t DEF QueryTyped
  <2>2. \A t \in named : KnownIn(query, t) => KnownIn(query', t)
    BY <1>t, <1>k, <2>1, KnownAsked
  <2> QED
    BY <1>a, <2>2 DEF TitleOf
<1>1. ASSUME NEW l, GoTo(l) PROVE TitleOf(ops', route', query', loc', named')
  BY <1>1, <1>t, TitleRender DEF GoTo, Acts, serverVars
<1>2. ASSUME NEW p, NEW t,
             \/ NewThread(p, t) \/ DeleteThread(p, t) \/ SubmitName(p)
             \/ RemoveProject(p) \/ FirstProject(p)
      PROVE  TitleOf(ops', route', query', loc', named')
  <2>1. ASSUME NEW kind, kind # "title", NEW u, NEW a, ops' = Sends(Op(kind, p, u, a))
        PROVE  \E x : x.kind # "title" /\ ops' = Sends(x)
    BY <2>1 DEF Op
  <2>2. UNCHANGED <<loc, query, route, named>> /\ \E x : x.kind # "title" /\ ops' = Sends(x)
    <3>2. CASE NewThread(p, t)
      BY <2>1, <3>2 DEF NewThread, Acts, serverVars
    <3>3. CASE DeleteThread(p, t)
      BY <2>1, <3>3 DEF DeleteThread, Acts, serverVars
    <3>4. CASE SubmitName(p)
      BY <2>1, <3>4 DEF SubmitName, Acts, serverVars
    <3>5. CASE RemoveProject(p)
      BY <2>1, <3>5 DEF RemoveProject, Acts, serverVars
    <3>6. CASE FirstProject(p)
      BY <2>1, <3>6 DEF FirstProject, Acts, serverVars
    <3> QED
      BY <1>2, <3>2, <3>3, <3>4, <3>5, <3>6
  <2> QED
    BY <1>s, <2>2
<1>3. ASSUME NEW s, OpenDialog(s) \/ CloseDialog
      PROVE  TitleOf(ops', route', query', loc', named')
  BY <1>3 DEF OpenDialog, CloseDialog, Acts, serverVars
<1>4. CASE UserMessagePersisted
  <2> DEFINE x == Op("title", loc.project, loc.thread, FALSE)
  <2>1. /\ x.kind = "title" /\ x.thread = loc.thread /\ x.phase = "sent"
        /\ ops' = ops \cup {x} /\ UNCHANGED <<loc, query, named>>
    BY <1>4 DEF UserMessagePersisted, Sends, Op, Acts, serverVars
  <2>2. route'.titled = route.titled \cup {loc.thread} /\ loc.page = "work"
    BY <1>4, <1>t DEF UserMessagePersisted, Shown, RouteTyped
  <2> HIDE DEF x
  <2> QED
    BY <2>1, <2>2 DEF TitleOf
<1>5. CASE Retry
  <2>1. CASE Render(loc, query, ops, [route EXCEPT !.requested = FALSE, !.opening = "idle"],
                    dialog)
    <3> DEFINE r == [route EXCEPT !.requested = FALSE, !.opening = "idle"]
    <3>1. RouteTyped(r) /\ r.titled = route.titled
      BY <1>t DEF RouteTyped
    <3> HIDE DEF r
    <3>2. TitleOf(ops, r, query, loc, named)
      BY <3>1 DEF TitleOf
    <3> QED
      BY <1>5, <1>t, <2>1, <3>1, <3>2, TitleRender DEF Retry, Acts, serverVars, r
  <2>2. CASE /\ loc.thread # None /\ query' = [query EXCEPT ![loc.thread] = Fetched(@)]
             /\ UNCHANGED <<loc, ops, route, dialog, born>>
    <3>1. loc.thread \in Keys
      BY <1>t, <1>k, <2>2, WorkPlace
    <3> QED
      BY <1>5, <1>a, <2>2, <3>1 DEF Retry, Acts, serverVars
  <2> QED
    BY <1>5, <2>1, <2>2 DEF Retry
<1>6. ASSUME NEW k \in Keys, Refetch(k) PROVE TitleOf(ops', route', query', loc', named')
  BY <1>6, <1>a DEF Refetch, Acts, serverVars
<1>7. ASSUME NEW k \in Keys, FetchRead(k) PROVE TitleOf(ops', route', query', loc', named')
  <2>1. query' = [query EXCEPT ![k].fetch = "read", ![k].answer = Answer(k)]
    BY <1>7 DEF FetchRead
  <2>2. /\ query'[k].answer = Answer(k) /\ query'[k].data = query[k].data
        /\ \A j \in Keys \ {k} : query'[j] = query[j]
    BY <1>t, <2>1 DEF QueryTyped, EntryOf
  <2>3. k \in named => k \in Answer(k).data.named
    BY <1>t, KeysDiffer DEF Answer
  <2>4. ASSUME NEW t \in named, KnownIn(query, t) PROVE KnownIn(query', t)
    BY <1>t, <1>k, <2>2, <2>3, <2>4 DEF KnownIn
  <2>5. UNCHANGED <<loc, ops, route, named>>
    BY <1>7 DEF FetchRead, serverVars
  <2> QED
    BY <2>4, <2>5 DEF TitleOf
<1>8. ASSUME NEW k \in Keys, FetchDone(k) PROVE TitleOf(ops', route', query', loc', named')
  <2>1. PICK ok, q :
           /\ ok \in BOOLEAN
           /\ q = [query EXCEPT ![k] = Answered(k, ok)] /\ QueryTyped(q)
           /\ (ok => query[k].answer.ok)
           /\ Answered(k, ok).data = IF ok THEN query[k].answer.data ELSE query[k].data
           /\ Answered(k, ok).answer = NoAnswer
           /\ Render(loc, q, IF ok THEN ops ELSE Missed(k), route, dialog)
           /\ UNCHANGED serverVars
    BY <1>8, FetchDoneIs
  <2> DEFINE os == IF ok THEN ops ELSE Missed(k)
  <2>2. q[k] = Answered(k, ok) /\ \A j \in Keys \ {k} : q[j] = query[j]
    BY <1>t, <2>1 DEF QueryTyped
  <2>3. ASSUME NEW t \in named, KnownIn(query, t) PROVE KnownIn(q, t)
    BY <1>t, <1>k, <2>1, <2>2, <2>3 DEF KnownIn, NoAnswer
  <2>4. TitleOf(ops, route, q, loc, named)
    BY <2>3 DEF TitleOf
  <2>5. TitleOf(Missed(k), route, q, loc, named)
    <3>1. FailedFor(k) \in SUBSET ops /\ \A x \in FailedFor(k) : x.phase # "applied"
      BY DEF FailedFor
    <3> QED
      BY <1>t, <2>4, <3>1, TitlePhases, MissedPhase
  <2>6. OpsTyped(os) /\ TitleOf(os, route, q, loc, named)
    BY <1>t, <2>4, <2>5, MissedTyped
  <2> QED
    BY <1>t, <2>1, <2>6, TitleRender DEF serverVars
<1>9. ASSUME NEW o \in ops, Apply(o) PROVE TitleOf(ops', route', query', loc', named')
  <2>1. CASE o.kind = "title"
    <3> DEFINE y == [o EXCEPT !.phase = "applied"]
    <3>1. /\ y.kind = "title" /\ y.thread = o.thread /\ y.phase = "applied"
      BY <1>t, <2>1 DEF OpsTyped, OpsOf
    <3>2. ops' = (ops \ {o}) \cup {y} /\ named' = named \cup {o.thread} /\ o.phase = "sent"
          /\ UNCHANGED <<route, query, loc>>
      BY <1>9, <2>1 DEF Apply, Moved
    <3> HIDE DEF y
    <3> QED
      BY <2>1, <3>1, <3>2 DEF TitleOf
  <2>2. CASE o.kind # "title"
    <3>1. PICK S \in SUBSET ops : S = {o}
      OBVIOUS
    <3>2. TitleOf(Phased(ops, S, "applied"), route, query, loc, named)
      BY <1>t, <2>2, <3>1, TitlePhases
    <3>3. ops' = Phased(ops, S, "applied") /\ UNCHANGED <<route, query, loc, named>>
      BY <1>9, <2>2, <3>1, MovedPhase DEF Apply
    <3> QED
      BY <3>2, <3>3
  <2> QED
    BY <2>1, <2>2
<1>10. ASSUME NEW o \in ops, Fails(o) PROVE TitleOf(ops', route', query', loc', named')
  <2>1. ops' = ops \ {o} /\ o.phase = "sent" /\ UNCHANGED <<query, loc, named>>
    BY <1>10 DEF Fails, serverVars
  <2>2. route'.titled = route.titled
    BY <1>10, <1>t DEF Fails, RouteTyped
  <2> QED
    BY <2>1, <2>2 DEF TitleOf
<1>11. ASSUME NEW o \in ops, Succeeds(o) PROVE TitleOf(ops', route', query', loc', named')
  <2>1. CASE o.kind = "title"
    <3> DEFINE q == Titled(query, o)
    <3>1. /\ Render(loc, q, ops \ {o}, route, dialog) /\ InOrder(o) /\ named' = named
      BY <1>11, <2>1 DEF Succeeds, serverVars
    <3>2. o.thread \in Threads
      BY <1>o, <2>1 DEF OfThread
    <3>3. QueryTyped(q)
      BY <1>t, <3>2, TitledTyped
    <3>4. KnownIn(q, o.thread)
      BY <1>t, <1>k, <3>1, <3>2, TitledEntry DEF InOrder, KnownIn
    <3>5. ASSUME NEW t \in named, KnownIn(query, t) PROVE KnownIn(q, t)
      <4>1. t \in Keys
        BY <1>t, <1>k
      <4> QED
        BY <1>t, <3>2, <3>5, <4>1, TitledEntry DEF KnownIn
    <3> HIDE DEF q
    <3>6. TitleOf(ops \ {o}, route, q, loc, named) /\ OpsTyped(ops \ {o})
      BY <1>t, <3>4, <3>5 DEF TitleOf, OpsTyped
    <3> QED
      BY <1>t, <3>1, <3>3, <3>6, TitleRender
  <2>2. CASE o.kind # "title"
    <3> DEFINE q == IF o.kind = "remove" THEN [query EXCEPT ![o.project] = Absent] ELSE query
    <3>1. /\ query' = Invalidated(q, Outdated(o)) /\ UNCHANGED <<loc, route, named>>
          /\ \E ph : ops' = Moved(o, ph)
      BY <1>11, <2>2 DEF Succeeds, serverVars
    <3>2. \A k \in Threads : q[k] = query[k]
      BY <1>t, <1>o, KeysDiffer DEF QueryTyped
    <3> HIDE DEF q
    <3>3. ASSUME NEW t \in named, KnownIn(query, t) PROVE KnownIn(query', t)
      <4>1. t \in Threads /\ t \in Keys
        BY <1>t, <1>k
      <4> QED
        BY <1>t, <3>1, <3>2, <3>3, <4>1, InvalidatedEntry, KnownAsked
    <3>4. TitleOf(ops, route, query', loc, named)
      BY <3>3 DEF TitleOf
    <3>5. PICK S \in SUBSET ops : S = {o}
      OBVIOUS
    <3>6. PICK ph : ops' = Phased(ops, S, ph)
      BY <3>1, <3>5, MovedPhase
    <3>7. TitleOf(Phased(ops, S, ph), route, query', loc, named)
      BY <1>t, <2>2, <3>4, <3>5, TitlePhases
    <3> QED
      BY <3>1, <3>6, <3>7
  <2> QED
    BY <2>1, <2>2
<1>12. ASSUME NEW o \in ops, Finishes(o) PROVE TitleOf(ops', route', query', loc', named')
  <2> DEFINE q == IF o.kind = "delete" THEN [query EXCEPT ![o.thread] = Absent] ELSE query
             r == IF o.kind = "open" /\ o.active THEN [route EXCEPT !.opening = "success"]
                  ELSE route
  <2>1. PICK d : Render(Leads(o), q, ops \ {o}, r, d)
    BY <1>12 DEF Finishes
  <2>2. o.phase # "applied" /\ named' = named
    BY <1>12 DEF Finishes, serverVars
  <2>3. RouteTyped(r) /\ r.titled = route.titled
    BY <1>t DEF RouteTyped
  <2>4. \A k \in Keys : q[k] \in {query[k], Absent}
    BY <1>t DEF QueryTyped
  <2>5. QueryTyped(q) /\ OpsTyped(ops \ {o})
    BY <1>t, <1>o, AbsentTyped DEF QueryTyped, OpsTyped
  <2> HIDE DEF q, r
  <2>6. ASSUME NEW t \in named, KnownIn(query, t) PROVE KnownIn(q, t)
    BY <1>t, <1>k, <2>4, <2>6, KnownAsked
  <2>7. TitleOf(ops \ {o}, r, q, loc, named)
    BY <2>2, <2>3, <2>6 DEF TitleOf
  <2> QED
    BY <1>t, <2>1, <2>2, <2>3, <2>5, <2>7, TitleRender
<1> QED
  BY <1>1, <1>2, <1>3, <1>4, <1>5, <1>6, <1>7, <1>8, <1>9, <1>10, <1>11, <1>12
     DEF Next, User, Fetches, Mutations

\* Only a message of the user asks for a title.
LEMMA RenderTitles ==
  ASSUME NEW l, NEW q, NEW o, OpsTyped(o), NEW r, NEW d, Render(l, q, o, r, d),
         NEW y \in ops', y.kind = "title"
  PROVE  y \in o
<1>1. PICK kinds \in SUBSET {"open", "create", "rename"}, kept \in {r, NewRoute} :
        Starts(Landed(l, q), o, kinds, kept)
  BY RenderIs
<1>2. y \in Detached(o, kinds)
  BY <1>1 DEF Starts, Op
<1>3. PICK x \in o : y = IF x.kind \in kinds THEN [x EXCEPT !.active = FALSE] ELSE x
  BY <1>2 DEF Detached
<1>4. CASE x.kind \in kinds
  <2>1. y.kind = x.kind
    BY <1>3, <1>4 DEF OpsTyped, OpsOf
  <2> QED
    BY <1>4, <2>1
<1> QED
  BY <1>3, <1>4

LEMMA PhasedTitles ==
  ASSUME OpsTyped(ops), NEW S \in SUBSET ops, NEW ph, ph # "sent",
         NEW y \in Phased(ops, S, ph), y.phase = "sent"
  PROVE  y \in ops
<1>1. PICK x \in ops : y = IF x \in S THEN [x EXCEPT !.phase = ph] ELSE x
  BY DEF Phased
<1>2. CASE x \in S
  BY <1>1, <1>2 DEF OpsTyped, OpsOf
<1> QED
  BY <1>1, <1>2

LEMMA TitleIsAsked ==
  ASSUME TypeOK, Next, NEW y \in ops', y \notin ops, y.kind = "title", y.phase = "sent"
  PROVE  UserMessagePersisted /\ y.thread = loc.thread
<1>t. OpsTyped(ops)
  BY TypeParts
<1>s. ASSUME NEW o \in ops PROVE OpsTyped(ops \ {o})
  BY <1>t DEF OpsTyped
<1>p. ASSUME NEW o \in ops, NEW ph, ph # "sent", ops' = Moved(o, ph) PROVE FALSE
  <2>1. PICK S \in SUBSET ops : S = {o}
    OBVIOUS
  <2>2. y \in Phased(ops, S, ph)
    BY <1>p, <2>1, MovedPhase
  <2> QED
    BY <1>p, <1>t, <2>2, PhasedTitles
<1>1. ASSUME NEW l, GoTo(l) PROVE FALSE
  BY <1>1, <1>t, RenderTitles DEF GoTo
<1>2. ASSUME NEW p, NEW t,
             \/ NewThread(p, t) \/ DeleteThread(p, t) \/ SubmitName(p)
             \/ RemoveProject(p) \/ FirstProject(p)
      PROVE  FALSE
  <2>1. \A kind, u, a : kind # "title" => ops' # Sends(Op(kind, p, u, a))
    BY DEF Sends, Op
  <2>2. ~NewThread(p, t)
    BY <2>1 DEF NewThread
  <2>3. ~DeleteThread(p, t)
    BY <2>1 DEF DeleteThread
  <2>4. ASSUME SubmitName(p) PROVE FALSE
    <3>1. \/ ops' = Sends(Op("create", p, None, TRUE))
          \/ ops' = Sends(Op("rename", p, None, TRUE))
      BY <2>4 DEF SubmitName
    <3>2. ops' # Sends(Op("create", p, None, TRUE)) BY <2>1
    <3>3. ops' # Sends(Op("rename", p, None, TRUE)) BY <2>1
    <3> QED BY <3>1, <3>2, <3>3
  <2>5. ~RemoveProject(p)
    BY <2>1 DEF RemoveProject
  <2>6. ~FirstProject(p)
    BY <2>1 DEF FirstProject
  <2> QED
    BY <1>2, <2>2, <2>3, <2>4, <2>5, <2>6
<1>3. ASSUME \/ \E s : OpenDialog(s)
             \/ CloseDialog \/ \E k \in Keys : Refetch(k) \/ FetchRead(k)
      PROVE  FALSE
  BY <1>3 DEF OpenDialog, CloseDialog, Refetch, FetchRead
<1>4. CASE UserMessagePersisted
  BY <1>4 DEF UserMessagePersisted, Sends, Op
<1>5. CASE Retry
  <2>1. \E r : Render(loc, query, ops, r, dialog)
    BY <1>5 DEF Retry
  <2> QED
    BY <1>t, <2>1, RenderTitles
<1>6. ASSUME NEW k \in Keys, FetchDone(k) PROVE FALSE
  <2>1. PICK ok, q : Render(loc, q, IF ok THEN ops ELSE Missed(k), route, dialog)
    BY <1>6 DEF FetchDone
  <2>2. y \in Missed(k)
    BY <1>t, <2>1, MissedTyped, RenderTitles
  <2>3. FailedFor(k) \in SUBSET ops
    BY DEF FailedFor
  <2> QED
    BY <1>t, <2>2, <2>3, MissedPhase, PhasedTitles
<1>7. ASSUME NEW o \in ops, Apply(o) PROVE FALSE
  BY <1>7, <1>p DEF Apply
<1>8. ASSUME NEW o \in ops, Fails(o) PROVE FALSE
  BY <1>8 DEF Fails
<1>9. ASSUME NEW o \in ops, Succeeds(o) PROVE FALSE
  <2>1. CASE o.kind = "title"
    BY <1>9, <1>s, <2>1, RenderTitles DEF Succeeds
  <2>2. CASE o.kind # "title"
    BY <1>9, <1>p, <2>2 DEF Succeeds
  <2> QED
    BY <2>1, <2>2
<1>10. ASSUME NEW o \in ops, Finishes(o) PROVE FALSE
  <2>1. \E q, r, d : Render(Leads(o), q, ops \ {o}, r, d)
    BY <1>10 DEF Finishes
  <2> QED
    BY <1>s, <2>1, RenderTitles
<1> QED
  BY <1>1, <1>2, <1>3, <1>4, <1>5, <1>6, <1>7, <1>8, <1>9, <1>10
     DEF Next, User, Fetches, Mutations

\* A conversation that has a title is not given an automatic one, however lists and
\* bootstraps are fetched meanwhile, as long as the page does not leave for one
\* without conversation, and answers are not overtaken, while a title is on its way.
THEOREM TitlesAreKept ==
  ASSUME "retitle" \notin Mishaps
  PROVE  Spec => NamedThreadsKeepTitle
<1> DEFINE Inv == QueryOf(query) /\ TitleOf(ops, route, query, loc, named)
<1>1. Init => Inv
  <2> SUFFICES ASSUME Init PROVE Inv
    OBVIOUS
  <2>1. \A k \in Keys : query[k] \in {Absent, Fetched(Absent)}
    BY DEF Init
  <2>2. \A k \in Keys : /\ query[k].status = "pending" /\ query[k].answer = NoAnswer
    <3>1. Absent.status = "pending" /\ Absent.answer = NoAnswer
      BY DEF Absent
    <3> QED
      BY <2>1, <3>1, AbsentTyped, FetchedEntry
  <2>3. QueryOf(query)
    BY <2>2 DEF QueryOf, NoAnswer
  <2> QED
    BY <2>3 DEF Init, TitleOf
<1>2. TypeOK /\ Inv /\ [Next]_vars => Inv'
  <2> SUFFICES ASSUME TypeOK, Inv, [Next]_vars PROVE Inv'
    OBVIOUS
  <2>1. CASE Next
    BY <2>1, QueryStep, TitleStep
  <2>2. CASE UNCHANGED vars
    BY <2>2 DEF vars, serverVars, QueryOf, TitleOf, KnownIn
  <2> QED
    BY <2>1, <2>2
<1>3. TypeOK /\ Inv /\ [Next]_vars
      => [\A o \in ops' \ ops : o.kind = "title" /\ o.phase = "sent"
            => o.thread \notin named]_vars
  <2> SUFFICES ASSUME TypeOK, Inv, Next,
                      NEW o \in ops', o \notin ops, o.kind = "title", o.phase = "sent"
               PROVE  o.thread \notin named
    OBVIOUS
  <2>1. UserMessagePersisted /\ o.thread = loc.thread
    BY TitleIsAsked
  <2>2. /\ query[loc.thread].status = "success" /\ loc.thread \notin route.titled
        /\ loc.thread \notin query[loc.thread].data.named /\ loc.thread # None
    BY <2>1 DEF UserMessagePersisted, Shown, Success, MayTitle, TitleKnown
  <2>3. loc.thread \in Keys
    BY <2>2, TypeParts, WorkPlace DEF Keys
  <2>4. ~KnownIn(query, loc.thread)
    BY <2>2, <2>3 DEF QueryOf, KnownIn
  <2>5. \A x \in ops : x.kind = "title" => x.thread # loc.thread
    BY <2>2 DEF TitleOf
  <2> QED
    BY <2>1, <2>4, <2>5 DEF TitleOf
<1> QED
  BY <1>1, <1>2, <1>3, TypeCorrect, PTL DEF Spec, NamedThreadsKeepTitle

-----------------------------------------------------------------------------
(* A conversation that was created is shown                                *)

Creates(o) == o.kind \in {"open", "new"}
Founds(o)  == o.kind \in {"create", "first"}

\* An id is given to one mutation, and to one row, which is there once.
IdsOnce(os, b) ==
    /\ \A o \in os : Creates(o) => o.thread \in b
    /\ \A o \in os : Founds(o) => o.project \in b
    /\ \A o, x \in os : Creates(o) /\ Creates(x) /\ o.thread = x.thread => o = x
    /\ \A o, x \in os : Founds(o) /\ Founds(x) /\ o.project = x.project => o = x
RowsOnce(os, b, ps) ==
    /\ \A i \in DOMAIN ps : ps[i] \in b
    /\ IsInjective(ps)
    /\ \A o \in os : Founds(o) /\ o.phase = "sent" => ~Contains(ps, o.project)
\* A project that was removed does not come back, nor do its conversations.
StayGone(os, b, ps, ths) ==
    \A o \in os : o.kind = "remove" /\ o.phase # "sent" =>
      /\ ~Contains(ps, o.project) /\ ths[o.project] = <<>> /\ o.project \in b
      /\ \A x \in os : Founds(x) /\ x.phase = "sent" => x.project # o.project
BirthOf(os, b, ps, ths) == IdsOnce(os, b) /\ RowsOnce(os, b, ps) /\ StayGone(os, b, ps, ths)

\* The same mutations, which may have lost their component or moved on.
AlikeBy(F, xs, os) ==
    /\ xs = {F[x] : x \in os}
    /\ \A x \in os : /\ F[x].kind = x.kind /\ F[x].project = x.project
                     /\ F[x].thread = x.thread
                     /\ F[x].phase = "sent" <=> x.phase = "sent"

LEMMA BirthAlike ==
  ASSUME NEW os, NEW xs, NEW F, AlikeBy(F, xs, os), NEW b, NEW ps, NEW ths,
         BirthOf(os, b, ps, ths)
  PROVE  BirthOf(xs, b, ps, ths)
<1>1. ASSUME NEW y \in xs
      PROVE  \E x \in os : /\ y = F[x] /\ y.kind = x.kind /\ y.project = x.project
                           /\ y.thread = x.thread /\ (y.phase = "sent" <=> x.phase = "sent")
  BY DEF AlikeBy
<1>2. IdsOnce(xs, b)
  BY <1>1 DEF BirthOf, IdsOnce, Creates, Founds
<1>3. RowsOnce(xs, b, ps)
  BY <1>1 DEF BirthOf, RowsOnce, Founds
<1>4. StayGone(xs, b, ps, ths)
  BY <1>1 DEF BirthOf, StayGone, Founds
<1> QED
  BY <1>2, <1>3, <1>4 DEF BirthOf

LEMMA DetachedAlike ==
  ASSUME NEW o, OpsTyped(o), NEW kinds
  PROVE  \E F : /\ AlikeBy(F, Detached(o, kinds), o)
                /\ \A x \in o : F[x].phase = x.phase
<1> DEFINE F == [x \in o |-> IF x.kind \in kinds THEN [x EXCEPT !.active = FALSE] ELSE x]
<1>1. ASSUME NEW x \in o
      PROVE  /\ F[x].kind = x.kind /\ F[x].project = x.project
             /\ F[x].thread = x.thread /\ F[x].phase = x.phase
  BY DEF OpsTyped, OpsOf
<1>2. Detached(o, kinds) = {F[x] : x \in o}
  BY DEF Detached
<1> QED
  BY <1>1, <1>2 DEF AlikeBy

LEMMA PhasedAlike ==
  ASSUME NEW os, OpsTyped(os), NEW S \in SUBSET os, NEW ph, ph # "sent",
         \A x \in S : x.phase # "sent"
  PROVE  \E F : AlikeBy(F, Phased(os, S, ph), os)
<1> DEFINE F == [x \in os |-> IF x \in S THEN [x EXCEPT !.phase = ph] ELSE x]
<1>1. ASSUME NEW x \in os
      PROVE  /\ F[x].kind = x.kind /\ F[x].project = x.project
             /\ F[x].thread = x.thread /\ (F[x].phase = "sent" <=> x.phase = "sent")
  BY DEF OpsTyped, OpsOf
<1>2. Phased(os, S, ph) = {F[x] : x \in os}
  BY DEF Phased
<1> QED
  BY <1>1, <1>2 DEF AlikeBy

LEMMA BirthFewer ==
  ASSUME NEW os, NEW xs \in SUBSET os, NEW b, NEW ps, NEW ths, BirthOf(os, b, ps, ths)
  PROVE  BirthOf(xs, b, ps, ths)
  BY DEF BirthOf, IdsOnce, RowsOnce, StayGone

\* A conversation with an id of its own.
LEMMA BirthCreates ==
  ASSUME NEW os, NEW b, NEW ps, NEW ths, BirthOf(os, b, ps, ths),
         NEW t, t \notin b, NEW x, Creates(x), x.thread = t
  PROVE  BirthOf(os \cup {x}, b \cup {t}, ps, ths)
<1>1. ~Founds(x) /\ x.kind # "remove"
  BY DEF Creates, Founds
<1>2. IdsOnce(os \cup {x}, b \cup {t})
  BY <1>1 DEF BirthOf, IdsOnce
<1>3. RowsOnce(os \cup {x}, b \cup {t}, ps)
  BY <1>1 DEF BirthOf, RowsOnce
<1>4. StayGone(os \cup {x}, b \cup {t}, ps, ths)
  BY <1>1 DEF BirthOf, StayGone
<1> QED
  BY <1>2, <1>3, <1>4 DEF BirthOf

LEMMA BirthRender ==
  ASSUME NEW l, NEW q, NEW o, OpsTyped(o), NEW r, NEW d, NEW ps, NEW ths,
         BirthOf(o, born, ps, ths), Render(l, q, o, r, d)
  PROVE  BirthOf(ops', born', ps, ths)
<1>1. PICK kinds \in SUBSET {"open", "create", "rename"}, kept \in {r, NewRoute} :
        Starts(Landed(l, q), o, kinds, kept)
  BY RenderIs
<1>2. BirthOf(Detached(o, kinds), born, ps, ths)
  BY DetachedAlike, BirthAlike
<1>3. CASE ops' = Detached(o, kinds) /\ born' = born
  BY <1>2, <1>3
<1>4. ASSUME NEW t \in Threads \ born, NEW p,
             ops' = Detached(o, kinds) \cup {Op("open", p, t, TRUE)}, born' = born \cup {t}
      PROVE  BirthOf(ops', born', ps, ths)
  <2> DEFINE x == Op("open", p, t, TRUE)
  <2>1. Creates(x) /\ x.thread = t /\ t \notin born
    BY DEF Op, Creates
  <2> HIDE DEF x
  <2>2. BirthOf(Detached(o, kinds) \cup {x}, born \cup {t}, ps, ths)
    BY <1>2, <2>1, BirthCreates
  <2> QED
    BY <1>4, <2>2 DEF x
<1> QED
  BY <1>1, <1>3, <1>4 DEF Starts

LEMMA BirthFounds ==
  ASSUME NEW os, NEW b, NEW ps \in Seq(Projects), NEW ths, BirthOf(os, b, ps, ths),
         NEW p, p \notin b, NEW x, Founds(x), x.project = p
  PROVE  BirthOf(os \cup {x}, b \cup {p}, ps, ths)
<1>1. ~Creates(x) /\ x.kind # "remove"
  BY DEF Creates, Founds
<1>2. IdsOnce(os \cup {x}, b \cup {p})
  BY <1>1 DEF BirthOf, IdsOnce
<1>3. ~Contains(ps, p)
  BY DEF BirthOf, RowsOnce, Contains
<1>4. RowsOnce(os \cup {x}, b \cup {p}, ps)
  BY <1>3 DEF BirthOf, RowsOnce
<1>5. StayGone(os \cup {x}, b \cup {p}, ps, ths)
  BY <1>1 DEF BirthOf, StayGone
<1> QED
  BY <1>2, <1>4, <1>5 DEF BirthOf

LEMMA BirthOther ==
  ASSUME NEW os, NEW b, NEW ps, NEW ths, BirthOf(os, b, ps, ths),
         NEW x, ~Creates(x), ~Founds(x), x.phase = "sent"
  PROVE  BirthOf(os \cup {x}, b, ps, ths)
  BY DEF BirthOf, IdsOnce, RowsOnce, StayGone

\* Rows come and go as the mutations are carried out.
LEMMA BirthApply ==
  ASSUME TypeOK, BirthOf(ops, born, projects, threads), NEW o \in ops, Apply(o)
  PROVE  BirthOf(ops', born', projects', threads')
<1> DEFINE y == [o EXCEPT !.phase = "applied"]
           p == o.project
<1>1. /\ y.kind = o.kind /\ y.project = p /\ y.thread = o.thread /\ y.phase = "applied"
      /\ o.phase = "sent" /\ ops' = (ops \ {o}) \cup {y} /\ born' = born
      /\ Applicable(o)
  BY DEF TypeOK, OpsOf, Apply, Moved
<1>2. /\ projects \in Seq(Projects) /\ threads \in [Projects -> Seq(Threads)]
      /\ p \in Projects /\ o.kind \in OfThread \cup OfProject
  BY DEF TypeOK, OpsOf
<1>3. IdsOnce(ops', born')
  <2> HIDE DEF y
  <2> QED
    BY <1>1 DEF BirthOf, IdsOnce, Creates, Founds
<1> HIDE DEF y
<1>4. CASE Founds(o)
  <2>1. projects' = <<p>> \o projects /\ threads' = threads /\ ~Contains(projects, p) /\ p \in born
    BY <1>1, <1>4 DEF Apply, Founds, BirthOf, RowsOnce, IdsOnce
  <2>2. /\ Len(projects') = Len(projects) + 1 /\ projects' \in Seq(Projects)
        /\ projects'[1] = p /\ \A i \in 1 .. Len(projects) : projects'[i + 1] = projects[i]
    BY <1>2, <2>1
  <2>3. DOMAIN projects = 1 .. Len(projects) /\ DOMAIN projects' = 1 .. Len(projects')
        /\ Len(projects) \in Nat
    BY <1>2, <2>2
  <2>4. \A i \in DOMAIN projects' \ {1} : i - 1 \in DOMAIN projects /\ projects'[i] = projects[i - 1]
    BY <2>2, <2>3
  <2>5. \A i \in DOMAIN projects : projects[i] # p /\ projects[i] \in born
    BY <2>1, <2>3 DEF Contains, BirthOf, RowsOnce
  <2>6. (\A i \in DOMAIN projects' : projects'[i] \in born') /\ IsInjective(projects')
    <3>1. \A i \in DOMAIN projects' : projects'[i] \in born'
      BY <1>1, <2>1, <2>2, <2>4, <2>5
    <3>2. ASSUME NEW i \in DOMAIN projects', NEW j \in DOMAIN projects',
                 projects'[i] = projects'[j]
          PROVE  i = j
      <4>1. CASE i # 1 /\ j # 1
        <5>1. i - 1 = j - 1
          BY <2>4, <3>2, <4>1 DEF BirthOf, RowsOnce, IsInjective
        <5> QED
          BY <2>3, <5>1
      <4>2. CASE i = 1 \/ j = 1
        BY <2>2, <2>4, <2>5, <3>2, <4>2
      <4> QED
        BY <4>1, <4>2
    <3> QED
      BY <3>1, <3>2 DEF IsInjective
  <2>7. \A u : Contains(projects', u) => u = p \/ Contains(projects, u)
    BY <2>2, <2>3, <2>4 DEF Contains
  <2>8. RowsOnce(ops', born', projects')
    BY <1>1, <1>4, <2>6, <2>7 DEF RowsOnce, BirthOf, IdsOnce, Founds
  <2>9. StayGone(ops', born', projects', threads')
    BY <1>1, <1>4, <2>1, <2>7 DEF StayGone, BirthOf, Founds
  <2> QED
    BY <1>3, <2>8, <2>9 DEF BirthOf
<1>5. CASE o.kind = "remove"
  <2>1. projects' = Without(projects, p) /\ threads' = [threads EXCEPT ![p] = <<>>]
    BY <1>1, <1>5 DEF Apply
  <2>2. /\ projects' \in Seq(Projects) /\ IsInjective(projects') /\ ~Contains(projects', p)
        /\ \A u : Contains(projects', u) => Contains(projects, u)
    BY <1>2, <2>1, WithoutSeq DEF BirthOf, RowsOnce
  <2>3. \A u : Contains(projects, u) => u \in born
    BY <1>2 DEF BirthOf, RowsOnce, Contains
  <2>4. p \in born /\ \A x \in ops : Founds(x) /\ x.phase = "sent" => x.project # p
    BY <1>1, <1>5, <2>3 DEF Applicable, BirthOf, RowsOnce
  <2>5. \A i \in DOMAIN projects' : projects'[i] \in born'
    <3>1. \A i \in DOMAIN projects' : Contains(projects', projects'[i])
      BY <2>2 DEF Contains
    <3> QED
      BY <1>1, <2>2, <2>3, <3>1
  <2>6. RowsOnce(ops', born', projects')
    BY <1>1, <1>5, <2>2, <2>5 DEF RowsOnce, BirthOf, Founds
  <2>7. StayGone(ops', born', projects', threads')
    <3>1. threads'[p] = <<>> /\ \A u \in Projects \ {p} : threads'[u] = threads[u]
      BY <1>2, <2>1
    <3>2. \A x \in ops : x.project \in Projects
      BY DEF TypeOK, OpsOf
    <3> QED
      BY <1>1, <1>5, <2>2, <2>4, <3>1, <3>2 DEF StayGone, BirthOf, Founds
  <2> QED
    BY <1>3, <2>6, <2>7 DEF BirthOf
<1>6. CASE ~Founds(o) /\ o.kind # "remove"
  <2>1. projects' = projects
    BY <1>6 DEF Apply, Founds
  <2>2. RowsOnce(ops', born', projects')
    BY <1>1, <1>6, <2>1 DEF RowsOnce, BirthOf, Founds
  <2>3. ASSUME NEW z \in ops, z.kind = "remove", z.phase # "sent"
        PROVE  threads'[z.project] = <<>>
    <3>1. /\ z.project \in Projects /\ ~Contains(projects, z.project)
          /\ threads[z.project] = <<>>
      BY <2>3 DEF TypeOK, OpsOf, BirthOf, StayGone
    <3>2. CASE o.kind \in {"open", "new"}
      BY <1>1, <1>2, <3>1, <3>2 DEF Apply, Applicable
    <3>3. CASE o.kind = "delete"
      <4>1. Contains(threads[p], o.thread)
        BY <1>1, <3>3 DEF Applicable
      <4>2. z.project # p
        BY <3>1, <4>1 DEF Contains
      <4> QED
        BY <1>2, <3>1, <3>3, <4>2 DEF Apply
    <3>4. CASE o.kind \notin {"open", "new", "delete"}
      BY <1>6, <3>1, <3>4 DEF Apply
    <3> QED
      BY <3>2, <3>3, <3>4
  <2>4. StayGone(ops', born', projects', threads')
    BY <1>1, <1>6, <2>1, <2>3 DEF StayGone, BirthOf, Founds
  <2> QED
    BY <1>3, <2>2, <2>4 DEF BirthOf
<1> QED
  BY <1>4, <1>5, <1>6

LEMMA BirthStep ==
  ASSUME TypeOK, BirthOf(ops, born, projects, threads), Next
  PROVE  BirthOf(ops', born', projects', threads')
<1>t. OpsTyped(ops) /\ projects \in Seq(Projects)
  BY TypeParts
<1>s. ASSUME NEW o \in ops
      PROVE  OpsTyped(ops \ {o}) /\ BirthOf(ops \ {o}, born, projects, threads)
  BY <1>t, BirthFewer DEF OpsTyped
<1>p. ASSUME NEW o \in ops, o.phase # "sent", NEW ph, ph # "sent", ops' = Moved(o, ph),
             UNCHANGED <<born, projects, threads>>
      PROVE  BirthOf(ops', born', projects', threads')
  <2>1. PICK S \in SUBSET ops : S = {o}
    OBVIOUS
  <2>2. \E F : AlikeBy(F, Phased(ops, S, ph), ops)
    BY <1>p, <1>t, <2>1, PhasedAlike
  <2>3. BirthOf(Phased(ops, S, ph), born, projects, threads)
    BY <2>2, BirthAlike
  <2> QED
    BY <1>p, <2>1, <2>3, MovedPhase
<1>1. ASSUME NEW l, GoTo(l) PROVE BirthOf(ops', born', projects', threads')
  BY <1>1, <1>t, BirthRender DEF GoTo, Acts, serverVars
<1>2. ASSUME NEW p, NEW t, NewThread(p, t) PROVE BirthOf(ops', born', projects', threads')
  <2> DEFINE x == Op("new", p, t, FALSE)
  <2>1. Creates(x) /\ x.thread = t
    BY DEF Op, Creates
  <2>2. /\ ops' = ops \cup {x} /\ born' = born \cup {t} /\ t \notin born
        /\ UNCHANGED <<projects, threads>>
    BY <1>2 DEF NewThread, Sends, Acts, serverVars
  <2> HIDE DEF x
  <2> QED
    BY <2>1, <2>2, BirthCreates
<1>3. ASSUME NEW x, ~Creates(x), ~Founds(x), x.phase = "sent", ops' = Sends(x),
             UNCHANGED <<born, projects, threads>>
      PROVE  BirthOf(ops', born', projects', threads')
  BY <1>3, BirthOther DEF Sends
<1>4. ASSUME NEW p, NEW t, DeleteThread(p, t) PROVE BirthOf(ops', born', projects', threads')
  <2> DEFINE x == Op("delete", p, t, t = loc.thread)
  <2>1. /\ ~Creates(x) /\ ~Founds(x) /\ x.phase = "sent"
    BY DEF Op, Creates, Founds
  <2>2. ops' = Sends(x) /\ UNCHANGED <<born, projects, threads>>
    BY <1>4 DEF DeleteThread, Acts, serverVars
  <2> QED
    BY <1>3, <2>1, <2>2
<1>5. ASSUME NEW p, RemoveProject(p) PROVE BirthOf(ops', born', projects', threads')
  <2> DEFINE x == Op("remove", p, None, p = loc.project)
  <2>1. /\ ~Creates(x) /\ ~Founds(x) /\ x.phase = "sent"
    BY DEF Op, Creates, Founds
  <2>2. ops' = Sends(x) /\ UNCHANGED <<born, projects, threads>>
    BY <1>5 DEF RemoveProject, Acts, serverVars
  <2> QED
    BY <1>3, <2>1, <2>2
<1>6. CASE UserMessagePersisted
  <2> DEFINE x == Op("title", loc.project, loc.thread, FALSE)
  <2>1. /\ ~Creates(x) /\ ~Founds(x) /\ x.phase = "sent"
    BY DEF Op, Creates, Founds
  <2>2. ops' = Sends(x) /\ UNCHANGED <<born, projects, threads>>
    BY <1>6 DEF UserMessagePersisted, Acts, serverVars
  <2> QED
    BY <1>3, <2>1, <2>2
<1>7. ASSUME NEW p, SubmitName(p) \/ FirstProject(p)
      PROVE  BirthOf(ops', born', projects', threads')
  <2>1. ASSUME NEW kind \in {"create", "first"}, NEW a, ops' = Sends(Op(kind, p, None, a)),
               p \notin born, born' = born \cup {p}, UNCHANGED <<projects, threads>>
        PROVE  BirthOf(ops', born', projects', threads')
    <3> DEFINE x == Op(kind, p, None, a)
    <3>1. Founds(x) /\ x.project = p
      BY DEF Op, Founds
    <3> HIDE DEF x
    <3>2. BirthOf(ops \cup {x}, born \cup {p}, projects, threads)
      BY <1>t, <2>1, <3>1, BirthFounds
    <3> QED
      BY <2>1, <3>2 DEF Sends, x
  <2>2. CASE FirstProject(p)
    BY <2>1, <2>2 DEF FirstProject, Acts, serverVars
  <2>3. CASE SubmitName(p) /\ dialog.subject = "create"
    BY <2>1, <2>3 DEF SubmitName, Acts, serverVars
  <2>4. CASE SubmitName(p) /\ dialog.subject # "create"
    <3> DEFINE x == Op("rename", p, None, TRUE)
    <3>1. /\ ~Creates(x) /\ ~Founds(x) /\ x.phase = "sent"
      BY DEF Op, Creates, Founds
    <3>2. ops' = Sends(x) /\ UNCHANGED <<born, projects, threads>>
      BY <2>4 DEF SubmitName, Acts, serverVars
    <3> QED
      BY <1>3, <3>1, <3>2
  <2> QED
    BY <1>7, <2>2, <2>3, <2>4
<1>8. ASSUME \/ \E s : OpenDialog(s)
             \/ CloseDialog \/ \E k \in Keys : Refetch(k) \/ FetchRead(k)
      PROVE  BirthOf(ops', born', projects', threads')
  BY <1>8 DEF OpenDialog, CloseDialog, Refetch, FetchRead, Acts, serverVars
<1>9. CASE Retry
  BY <1>9, <1>t, BirthRender DEF Retry, Acts, serverVars
<1>10. ASSUME NEW k \in Keys, FetchDone(k) PROVE BirthOf(ops', born', projects', threads')
  <2>1. PICK ok, q : /\ Render(loc, q, IF ok THEN ops ELSE Missed(k), route, dialog)
                                 /\ UNCHANGED serverVars
    BY <1>10 DEF FetchDone
  <2>2. BirthOf(Missed(k), born, projects, threads)
    <3>1. FailedFor(k) \in SUBSET ops /\ \A x \in FailedFor(k) : x.phase # "sent"
      BY DEF FailedFor
    <3> QED
      BY <1>t, <3>1, MissedPhase, PhasedAlike, BirthAlike
  <2>3. OpsTyped(Missed(k))
    BY <1>t, MissedTyped
  <2> QED
    BY <1>t, <2>1, <2>2, <2>3, BirthRender DEF serverVars
<1>11. ASSUME NEW o \in ops, Apply(o) PROVE BirthOf(ops', born', projects', threads')
  BY <1>11, BirthApply
<1>12. ASSUME NEW o \in ops, Fails(o) PROVE BirthOf(ops', born', projects', threads')
  BY <1>12, <1>s DEF Fails, serverVars
<1>13. ASSUME NEW o \in ops, Succeeds(o) PROVE BirthOf(ops', born', projects', threads')
  <2>1. CASE o.kind = "title"
    BY <1>13, <1>s, <2>1, BirthRender DEF Succeeds, serverVars
  <2>2. CASE o.kind # "title"
    BY <1>13, <1>p, <2>2 DEF Succeeds, serverVars
  <2> QED
    BY <2>1, <2>2
<1>14. ASSUME NEW o \in ops, Finishes(o) PROVE BirthOf(ops', born', projects', threads')
  <2>1. \E q, r, d : Render(Leads(o), q, ops \ {o}, r, d) /\ UNCHANGED serverVars
    BY <1>14 DEF Finishes
  <2> QED
    BY <1>s, <2>1, BirthRender DEF serverVars
<1> QED
  BY <1>1, <1>2, <1>4, <1>5, <1>6, <1>7, <1>8, <1>9, <1>10, <1>11, <1>12, <1>13, <1>14
     DEF Next, User, Fetches, Mutations

\* The list of the project holds the conversation, now or after its next answer.
AwaitedIn(q, p, t) ==
    \/ q[p].fetch = "sent"
    \/ /\ q[p].fetch = "read"
       /\ q[p].answer.ok => Contains(q[p].answer.data.ids, t)
    \/ q[p].fetch = "idle" /\ q[p].status = "success" /\ Contains(q[p].data.ids, t)

CreatedOf(os, q, ths) ==
    \A o \in os : Creates(o) /\ o.phase = "refetch" /\ Contains(ths[o.project], o.thread)
      => AwaitedIn(q, o.project, o.thread)

LEMMA AwaitedAsked ==
  ASSUME NEW p \in Projects, NEW t, NEW q, QueryTyped(q), AwaitedIn(q, p, t), NEW z,
         z[p] \in {q[p], Fetched(q[p]), [q[p] EXCEPT !.stale = TRUE]}
  PROVE  AwaitedIn(z, p, t)
<1>1. p \in Keys /\ q[p] \in EntryOf(p)
  BY DEF QueryTyped, Keys
<1>2. CASE z[p] = q[p]
  BY <1>2 DEF AwaitedIn
<1>3. CASE z[p] = Fetched(q[p])
  BY <1>1, <1>3, FetchedEntry DEF AwaitedIn
<1>4. CASE z[p] = [q[p] EXCEPT !.stale = TRUE]
  BY <1>1, <1>4 DEF AwaitedIn, EntryOf
<1> QED
  BY <1>2, <1>3, <1>4

LEMMA CreatedRender ==
  ASSUME NEW l, NEW q, QueryTyped(q), NEW o, OpsTyped(o), NEW r, NEW d, NEW ths,
         CreatedOf(o, q, ths), Render(l, q, o, r, d)
  PROVE  CreatedOf(ops', query', ths)
<1>1. PICK kinds \in SUBSET {"open", "create", "rename"}, kept \in {r, NewRoute} :
        Starts(Landed(l, q), o, kinds, kept)
  BY RenderIs
<1>2. query' = Mounted(Landed(l, q), q)
  BY RenderIs
<1>3. PICK F : /\ AlikeBy(F, Detached(o, kinds), o)
               /\ \A x \in o : F[x].phase = x.phase
  BY DetachedAlike
<1> SUFFICES ASSUME NEW y \in ops', Creates(y), y.phase = "refetch",
                    Contains(ths[y.project], y.thread)
             PROVE  AwaitedIn(query', y.project, y.thread)
  BY DEF CreatedOf
<1>4. y \in Detached(o, kinds)
  BY <1>1 DEF Starts, Op
<1>5. PICK x \in o : /\ y.kind = x.kind /\ y.project = x.project /\ y.thread = x.thread
                     /\ y.phase = x.phase
  BY <1>3, <1>4 DEF AlikeBy
<1>6. AwaitedIn(q, x.project, x.thread) /\ x.project \in Projects
  BY <1>5 DEF CreatedOf, Creates, OpsTyped, OpsOf
<1>7. x.project \in Keys
  BY <1>6 DEF Keys
<1> QED
  BY <1>2, <1>5, <1>6, <1>7, MountedEntry, AwaitedAsked

\* Fewer mutations that wait for a list.
LEMMA CreatedFewer ==
  ASSUME NEW os, NEW xs, NEW q, NEW ths, CreatedOf(os, q, ths),
         \A x \in xs : Creates(x) /\ x.phase = "refetch" => x \in os
  PROVE  CreatedOf(xs, q, ths)
  BY DEF CreatedOf

LEMMA CreatedApply ==
  ASSUME TypeOK, BirthOf(ops, born, projects, threads), CreatedOf(ops, query, threads),
         NEW o \in ops, Apply(o)
  PROVE  CreatedOf(ops', query', threads')
<1> DEFINE y == [o EXCEPT !.phase = "applied"]
<1>1. /\ y.phase = "applied" /\ o.phase = "sent" /\ ops' = (ops \ {o}) \cup {y}
      /\ query' = query
  BY DEF TypeOK, OpsOf, Apply, Moved
<1> HIDE DEF y
<1> SUFFICES ASSUME NEW x \in ops, x # o, Creates(x), x.phase = "refetch",
                    Contains(threads'[x.project], x.thread)
             PROVE  Contains(threads[x.project], x.thread)
  BY <1>1 DEF CreatedOf
<1>2. /\ threads \in [Projects -> Seq(Threads)] /\ o.project \in Projects /\ x.project \in Projects
      /\ o.kind \in OfThread \cup OfProject
      /\ o.kind \in OfThread => o.thread \in Threads
  BY DEF TypeOK, OpsOf, OfThread, OfProject
<1>3. CASE Creates(o)
  <2>1. o.thread # x.thread
    BY <1>3 DEF BirthOf, IdsOnce
  <2>2. threads' = [threads EXCEPT ![o.project] = <<o.thread>> \o threads[o.project]]
    BY <1>3 DEF Apply, Creates
  <2>3. CASE x.project = o.project
    <3> DEFINE s == threads[o.project]
    <3>1. s \in Seq(Threads) /\ o.thread \in Threads
      BY <1>2, <1>3 DEF Creates, OfThread
    <3>2. threads'[x.project] = <<o.thread>> \o s
      BY <1>2, <2>2, <2>3
    <3> HIDE DEF s
    <3>3. /\ Len(<<o.thread>> \o s) = Len(s) + 1
          /\ (<<o.thread>> \o s)[1] = o.thread
          /\ \A i \in 2 .. (Len(s) + 1) : (<<o.thread>> \o s)[i] = s[i - 1]
      BY <3>1
    <3>4. PICK i \in 1 .. Len(s) + 1 : (<<o.thread>> \o s)[i] = x.thread
      BY <3>2, <3>3 DEF Contains
    <3>5. i # 1 /\ s[i - 1] = x.thread /\ i - 1 \in 1 .. Len(s)
      BY <2>1, <3>1, <3>3, <3>4
    <3> QED
      BY <2>3, <3>5 DEF Contains, s
  <2>4. CASE x.project # o.project
    BY <1>2, <2>2, <2>4
  <2> QED
    BY <2>3, <2>4
<1>4. CASE o.kind = "delete"
  <2>1. threads' = [threads EXCEPT ![o.project] = Without(threads[o.project], o.thread)]
    BY <1>4 DEF Apply
  <2>2. threads[o.project] \in Seq(Threads)
    BY <1>2
  <2>3. threads'[x.project] = IF x.project = o.project
                              THEN Without(threads[o.project], o.thread) ELSE threads[x.project]
    BY <1>2, <2>1
  <2>4. CASE x.project = o.project
    <3>1. Contains(Without(threads[o.project], o.thread), x.thread)
      BY <2>3, <2>4
    <3> QED
      BY <2>2, <2>4, <3>1, WithoutSeq
  <2> QED
    BY <2>3, <2>4
<1>5. CASE o.kind = "remove"
  <2>1. threads' = [threads EXCEPT ![o.project] = <<>>]
    BY <1>5 DEF Apply
  <2>2. ~Contains(<<>>, x.thread)
    BY DEF Contains
  <2> QED
    BY <1>2, <2>1, <2>2
<1>6. CASE ~Creates(o) /\ o.kind \notin {"delete", "remove"}
  BY <1>6 DEF Apply, Creates
<1> QED
  BY <1>3, <1>4, <1>5, <1>6

LEMMA CreatedStep ==
  ASSUME TypeOK, BirthOf(ops, born, projects, threads), CreatedOf(ops, query, threads), Next
  PROVE  CreatedOf(ops', query', threads')
<1>t. /\ loc \in Places /\ QueryTyped(query) /\ OpsTyped(ops)
  BY TypeParts
<1>o. ASSUME NEW o \in ops
      PROVE  /\ o.project \in Projects /\ (o.kind \in OfThread => o.thread \in Threads)
             /\ OpsTyped(ops \ {o}) /\ CreatedOf(ops \ {o}, query, threads)
             /\ o.project \in Keys
  BY <1>t DEF OpsTyped, OpsOf, OfThread, OfProject, CreatedOf, Keys
<1>s. ASSUME NEW x, x.phase # "refetch", ops' = Sends(x), UNCHANGED <<query, threads>>
      PROVE  CreatedOf(ops', query', threads')
  BY <1>s, CreatedFewer DEF Sends
<1>a. ASSUME NEW k \in Keys, query' = [query EXCEPT ![k] = Fetched(@)], UNCHANGED <<ops, threads>>
      PROVE  CreatedOf(ops', query', threads')
  <2>1. \A j \in Keys : query'[j] \in {query[j], Fetched(query[j])}
    BY <1>a, <1>t DEF QueryTyped
  <2> QED
    <3>1. ASSUME NEW x \in ops, AwaitedIn(query, x.project, x.thread)
          PROVE  AwaitedIn(query', x.project, x.thread)
      <4>1. x.project \in Projects /\ x.project \in Keys
        BY <1>o
      <4>2. query'[x.project] \in {query[x.project], Fetched(query[x.project]),
                                   [query[x.project] EXCEPT !.stale = TRUE]}
        BY <2>1, <4>1
      <4>3. QueryTyped(query) /\ AwaitedIn(query, x.project, x.thread)
        BY <1>t, <3>1
      <4> QED
        BY <4>1, <4>2, <4>3, AwaitedAsked
    <3> QED
      BY <1>a, <3>1 DEF CreatedOf
<1>1. ASSUME NEW l, GoTo(l) PROVE CreatedOf(ops', query', threads')
  BY <1>1, <1>t, CreatedRender DEF GoTo, Acts, serverVars
<1>2. ASSUME NEW p, NEW t,
             \/ NewThread(p, t) \/ DeleteThread(p, t) \/ SubmitName(p)
             \/ RemoveProject(p) \/ FirstProject(p) \/ UserMessagePersisted
      PROVE  CreatedOf(ops', query', threads')
  <2>1. ASSUME NEW kind, NEW u, NEW v, NEW a, ops' = Sends(Op(kind, u, v, a)),
               UNCHANGED <<query, threads>>
        PROVE  CreatedOf(ops', query', threads')
    BY <1>s, <2>1 DEF Op
  <2>2. CASE NewThread(p, t)
    BY <2>1, <2>2 DEF NewThread, Acts, serverVars
  <2>3. CASE DeleteThread(p, t)
    BY <2>1, <2>3 DEF DeleteThread, Acts, serverVars
  <2>4. CASE SubmitName(p)
    BY <2>1, <2>4 DEF SubmitName, Acts, serverVars
  <2>5. CASE RemoveProject(p)
    BY <2>1, <2>5 DEF RemoveProject, Acts, serverVars
  <2>6. CASE FirstProject(p)
    BY <2>1, <2>6 DEF FirstProject, Acts, serverVars
  <2>7. CASE UserMessagePersisted
    BY <2>1, <2>7 DEF UserMessagePersisted, Acts, serverVars
  <2> QED
    BY <1>2, <2>2, <2>3, <2>4, <2>5, <2>6, <2>7
<1>3. ASSUME NEW s, OpenDialog(s) \/ CloseDialog
      PROVE  CreatedOf(ops', query', threads')
  BY <1>3 DEF OpenDialog, CloseDialog, Acts, serverVars
<1>4. CASE Retry
  <2>1. CASE \E r : Render(loc, query, ops, r, dialog)
    BY <1>4, <1>t, <2>1, CreatedRender DEF Retry, Acts, serverVars
  <2>2. CASE /\ loc.thread # None /\ query' = [query EXCEPT ![loc.thread] = Fetched(@)]
             /\ UNCHANGED ops
    <3>1. loc.thread \in Keys
      BY <1>t, <2>2, WorkPlace DEF Keys
    <3> QED
      BY <1>4, <1>a, <2>2, <3>1 DEF Retry, Acts, serverVars
  <2> QED
    BY <1>4, <2>1, <2>2 DEF Retry
<1>5. ASSUME NEW k \in Keys, Refetch(k) PROVE CreatedOf(ops', query', threads')
  BY <1>5, <1>a DEF Refetch, Acts, serverVars
<1>6. ASSUME NEW k \in Keys, FetchRead(k) PROVE CreatedOf(ops', query', threads')
  <2>1. query' = [query EXCEPT ![k].fetch = "read", ![k].answer = Answer(k)]
        /\ UNCHANGED <<ops, threads>>
    BY <1>6 DEF FetchRead, serverVars
  <2>2. /\ query'[k].answer = Answer(k) /\ query'[k].fetch = "read"
        /\ \A j \in Keys \ {k} : query'[j] = query[j]
    BY <1>t, <2>1 DEF QueryTyped, EntryOf
  <2>3. k \in Projects => Answer(k).data.ids = threads[k]
    BY KeysDiffer DEF Answer
  <2>4. ASSUME NEW x \in ops, Creates(x), x.phase = "refetch",
               Contains(threads[x.project], x.thread)
        PROVE  AwaitedIn(query', x.project, x.thread)
    <3>1. CASE x.project = k
      BY <1>o, <2>2, <2>3, <2>4, <3>1 DEF AwaitedIn
    <3>2. CASE x.project # k
      BY <1>o, <2>2, <2>4, <3>2 DEF CreatedOf, AwaitedIn
    <3> QED
      BY <3>1, <3>2
  <2> QED
    BY <2>1, <2>4 DEF CreatedOf
<1>7. ASSUME NEW k \in Keys, FetchDone(k) PROVE CreatedOf(ops', query', threads')
  <2>1. PICK ok, q :
           /\ ok \in BOOLEAN
           /\ q = [query EXCEPT ![k] = Answered(k, ok)] /\ QueryTyped(q)
           /\ query[k].fetch = "read" /\ (ok => query[k].answer.ok)
           /\ Answered(k, ok).data = IF ok THEN query[k].answer.data ELSE query[k].data
           /\ Answered(k, ok).status = IF ok THEN "success" ELSE "error"
           /\ Answered(k, ok).fetch = "idle"
           /\ Render(loc, q, IF ok THEN ops ELSE Missed(k), route, dialog)
           /\ UNCHANGED serverVars
    BY <1>7, FetchDoneIs
  <2> DEFINE os == IF ok THEN ops ELSE Missed(k)
  <2>2. q[k] = Answered(k, ok) /\ \A j \in Keys \ {k} : q[j] = query[j]
    BY <1>t, <2>1 DEF QueryTyped
  <2>3. \A x \in os : x.phase = "refetch" => x \in ops /\ (ok \/ x.project # k)
    BY <1>t DEF OpsTyped, OpsOf, Missed
  <2>4. OpsTyped(os)
    BY <1>t, MissedTyped
  <2> HIDE DEF os
  <2>5. ASSUME NEW x \in os, Creates(x), x.phase = "refetch",
               Contains(threads[x.project], x.thread)
        PROVE  AwaitedIn(q, x.project, x.thread)
    <3>1. x \in ops /\ x.project \in Keys /\ AwaitedIn(query, x.project, x.thread)
      BY <1>o, <2>3, <2>5 DEF CreatedOf
    <3>2. CASE x.project = k
      <4>1. ok
        BY <2>3, <2>5, <3>2
      <4> QED
        <5>1. Contains(query[k].answer.data.ids, x.thread)
          BY <2>1, <3>1, <3>2, <4>1 DEF AwaitedIn
        <5>2. /\ q[k].fetch = "idle" /\ q[k].status = "success"
              /\ q[k].data = query[k].answer.data
          BY <2>1, <2>2, <4>1
        <5> QED
          BY <3>2, <5>1, <5>2 DEF AwaitedIn
    <3>3. CASE x.project # k
      BY <2>2, <3>1, <3>3 DEF AwaitedIn
    <3> QED
      BY <3>2, <3>3
  <2>6. CreatedOf(os, q, threads)
    BY <2>5 DEF CreatedOf
  <2> QED
    BY <2>1, <2>4, <2>6, CreatedRender DEF os, serverVars
<1>8. ASSUME NEW o \in ops, Apply(o) PROVE CreatedOf(ops', query', threads')
  BY <1>8, CreatedApply
<1>9. ASSUME NEW o \in ops, Fails(o) PROVE CreatedOf(ops', query', threads')
  BY <1>9, <1>o DEF Fails, serverVars
<1>10. ASSUME NEW o \in ops, Succeeds(o) PROVE CreatedOf(ops', query', threads')
  <2>1. CASE o.kind = "title"
    <3> DEFINE q == Titled(query, o)
    <3>1. Render(loc, q, ops \ {o}, route, dialog) /\ threads' = threads
      BY <1>10, <2>1 DEF Succeeds, serverVars
    <3>2. o.thread \in Threads
      BY <1>o, <2>1 DEF OfThread
    <3>3. QueryTyped(q)
      BY <1>t, <3>2, TitledTyped
    <3>4. \A k \in Keys : /\ q[k].fetch = query[k].fetch /\ q[k].answer = query[k].answer
                          /\ q[k].data.ids = query[k].data.ids
                          /\ query[k].status = "success" => q[k].status = "success"
      BY <1>t, <3>2, TitledEntry
    <3> HIDE DEF q
    <3>5. CreatedOf(ops \ {o}, q, threads)
      BY <1>o, <3>4 DEF CreatedOf, AwaitedIn
    <3> QED
      BY <1>o, <3>1, <3>3, <3>5, CreatedRender
  <2>2. CASE o.kind # "title"
    <3> DEFINE q  == IF o.kind = "remove" THEN [query EXCEPT ![o.project] = Absent] ELSE query
               ph == IF Outdated(o) \cap Observed(loc, query) # {} THEN "refetch" ELSE "missed"
               y  == [o EXCEPT !.phase = ph]
    <3>1. /\ query' = Invalidated(q, Outdated(o)) /\ ops' = (ops \ {o}) \cup {y}
          /\ o.phase = "applied" /\ threads' = threads
      BY <1>10, <2>2 DEF Succeeds, serverVars, Moved
    <3>2. /\ y.kind = o.kind /\ y.project = o.project /\ y.thread = o.thread /\ y.phase = ph
      BY <1>t DEF OpsTyped, OpsOf
    <3>3. QueryTyped(q)
      BY <1>t, <1>o, AbsentTyped DEF QueryTyped
    <3>4. ASSUME o.kind = "remove" PROVE threads[o.project] = <<>>
      BY <3>1, <3>4 DEF BirthOf, StayGone
    <3>5. ASSUME NEW x \in ops, Creates(x), x.phase = "refetch",
                 Contains(threads[x.project], x.thread)
          PROVE  AwaitedIn(query', x.project, x.thread)
      <4>1. x.project \in Keys /\ x.project \in Projects /\ AwaitedIn(query, x.project, x.thread)
        BY <1>o, <3>5 DEF CreatedOf
      <4>2. q[x.project] = query[x.project]
        <5>1. ASSUME o.kind = "remove" PROVE x.project # o.project
          BY <3>4, <3>5, <5>1 DEF Contains
        <5> QED
          BY <1>t, <4>1, <5>1 DEF QueryTyped
      <4>3. AwaitedIn(q, x.project, x.thread)
        BY <4>1, <4>2 DEF AwaitedIn
      <4> QED
        BY <3>1, <3>3, <4>1, <4>3, InvalidatedEntry, AwaitedAsked
    <3>6. ASSUME Creates(y), ph = "refetch"
          PROVE  AwaitedIn(query', y.project, y.thread)
      <4>1. Outdated(o) = {o.project} /\ q = query
        BY <3>2, <3>6 DEF Creates, Outdated
      <4>2. o.project \in Observed(loc, query)
        BY <3>6, <4>1
      <4>3. query'[o.project] = Fetched(query[o.project])
        <5> DEFINE z == Invalidated(query, {o.project})
        <5>1. query' = z
          BY <3>1, <4>1
        <5>2. z[o.project] = Fetched(query[o.project])
          BY <1>o, <4>2, InvalidatedEntry
        <5> QED
          BY <5>1, <5>2
      <4>4. query'[o.project].fetch = "sent"
        <5>1. query[o.project] \in EntryOf(o.project) /\ o.project \in Keys
          BY <1>o, <1>t DEF QueryTyped
        <5> QED
          BY <4>3, <5>1, FetchedEntry
      <4> QED
        BY <3>2, <4>4 DEF AwaitedIn
    <3> HIDE DEF q, ph, y
    <3> QED
      BY <3>1, <3>2, <3>5, <3>6 DEF CreatedOf
  <2> QED
    BY <2>1, <2>2
<1>11. ASSUME NEW o \in ops, Finishes(o) PROVE CreatedOf(ops', query', threads')
  <2> DEFINE q == IF o.kind = "delete" THEN [query EXCEPT ![o.thread] = Absent] ELSE query
  <2>1. PICK r, d : Render(Leads(o), q, ops \ {o}, r, d) /\ UNCHANGED serverVars
    BY <1>11 DEF Finishes
  <2>2. \A k \in Projects : q[k] = query[k]
    BY <1>t, <1>o, KeysDiffer DEF QueryTyped, OfThread, Keys
  <2>3. QueryTyped(q)
    BY <1>t, <1>o, AbsentTyped DEF QueryTyped
  <2> HIDE DEF q
  <2>4. CreatedOf(ops \ {o}, q, threads)
    BY <1>o, <2>2 DEF CreatedOf, AwaitedIn
  <2> QED
    BY <1>o, <2>1, <2>3, <2>4, CreatedRender DEF serverVars
<1> QED
  BY <1>1, <1>2, <1>3, <1>4, <1>5, <1>6, <1>7, <1>8, <1>9, <1>10, <1>11
     DEF Next, User, Fetches, Mutations

\* A mutation that waits for its list is there until it finishes.
StillThere(o) == \E x \in ops' : x.thread = o.thread /\ x.kind = o.kind

LEMMA RenderKeeps ==
  ASSUME NEW l, NEW q, NEW o, OpsTyped(o), NEW r, NEW d, Render(l, q, o, r, d), NEW y \in o
  PROVE  StillThere(y)
<1>1. PICK kinds \in SUBSET {"open", "create", "rename"}, kept \in {r, NewRoute} :
        Starts(Landed(l, q), o, kinds, kept)
  BY RenderIs
<1>2. PICK F : AlikeBy(F, Detached(o, kinds), o)
  BY DetachedAlike
<1>3. /\ F[y] \in Detached(o, kinds) /\ F[y].thread = y.thread /\ F[y].kind = y.kind
  BY <1>2 DEF AlikeBy
<1>4. F[y] \in ops'
  BY <1>1, <1>3 DEF Starts
<1> QED
  BY <1>3, <1>4 DEF StillThere

LEMMA OnlyFinishesEnd ==
  ASSUME TypeOK, Next, NEW o \in ops, o.phase = "refetch", ~StillThere(o)
  PROVE  Finishes(o)
<1>t. OpsTyped(ops)
  BY TypeParts
<1>s. ASSUME NEW x \in ops PROVE OpsTyped(ops \ {x})
  BY <1>t DEF OpsTyped
<1>k. o \notin ops'
  BY DEF StillThere
<1>p. ASSUME NEW x \in ops, NEW ph, ops' = Moved(x, ph) PROVE FALSE
  <2>1. [x EXCEPT !.phase = ph].kind = x.kind /\ [x EXCEPT !.phase = ph].thread = x.thread
    BY <1>t DEF OpsTyped, OpsOf
  <2>2. [x EXCEPT !.phase = ph] \in ops' /\ ops \ {x} \subseteq ops'
    BY <1>p DEF Moved
  <2> QED
    BY <2>1, <2>2 DEF StillThere
<1>1. ASSUME NEW l, GoTo(l) PROVE FALSE
  BY <1>1, <1>t, RenderKeeps DEF GoTo
<1>2. ASSUME NEW p, NEW t,
             \/ NewThread(p, t) \/ DeleteThread(p, t) \/ SubmitName(p)
             \/ RemoveProject(p) \/ FirstProject(p) \/ UserMessagePersisted
      PROVE  FALSE
  <2>1. ops \subseteq ops'
    BY <1>2 DEF NewThread, DeleteThread, SubmitName, RemoveProject, FirstProject,
                UserMessagePersisted, Sends
  <2> QED
    BY <1>k, <2>1
<1>3. ASSUME \/ \E s : OpenDialog(s)
             \/ CloseDialog \/ \E k \in Keys : Refetch(k) \/ FetchRead(k)
      PROVE  FALSE
  BY <1>3, <1>k DEF OpenDialog, CloseDialog, Refetch, FetchRead
<1>4. CASE Retry
  <2>1. CASE \E r : Render(loc, query, ops, r, dialog)
    BY <1>t, <2>1, RenderKeeps
  <2> QED
    BY <1>4, <1>k, <2>1 DEF Retry
<1>5. ASSUME NEW k \in Keys, FetchDone(k) PROVE FALSE
  <2>1. PICK ok, q : Render(loc, q, IF ok THEN ops ELSE Missed(k), route, dialog)
    BY <1>5 DEF FetchDone
  <2>2. CASE ok
    BY <1>t, <2>1, <2>2, RenderKeeps
  <2>3. CASE ~ok
    <3> DEFINE y == IF o.project = k THEN [o EXCEPT !.phase = "missed"] ELSE o
    <3>1. y.thread = o.thread /\ y.kind = o.kind
      BY <1>t DEF OpsTyped, OpsOf
    <3>2. y \in Missed(k)
      BY DEF Missed
    <3>3. OpsTyped(Missed(k))
      BY <1>t, MissedTyped
    <3> HIDE DEF y
    <3>4. StillThere(y)
      BY <2>1, <2>3, <3>2, <3>3, RenderKeeps
    <3> QED
      BY <3>1, <3>4 DEF StillThere
  <2> QED
    BY <2>2, <2>3
<1>6. ASSUME NEW x \in ops, Apply(x) PROVE FALSE
  BY <1>6, <1>p DEF Apply
<1>7. ASSUME NEW x \in ops, Fails(x) PROVE FALSE
  BY <1>7, <1>k DEF Fails
<1>8. ASSUME NEW x \in ops, Succeeds(x) PROVE FALSE
  <2>1. CASE x.kind = "title"
    BY <1>8, <1>s, <2>1, RenderKeeps DEF Succeeds
  <2>2. CASE x.kind # "title"
    BY <1>8, <1>p, <2>2 DEF Succeeds
  <2> QED
    BY <2>1, <2>2
<1>9. ASSUME NEW x \in ops, Finishes(x) PROVE x = o
  <2>1. \E q, r, d : Render(Leads(x), q, ops \ {x}, r, d)
    BY <1>9 DEF Finishes
  <2> QED
    BY <1>s, <2>1, RenderKeeps
<1> QED
  BY <1>1, <1>2, <1>3, <1>4, <1>5, <1>6, <1>7, <1>8, <1>9 DEF Next, User, Fetches, Mutations

\* A conversation that was created, by the button or by the route of an empty
\* project, is the one the page shows when its list has been fetched again, unless
\* it is gone by then: the redirect for unknown conversations does not catch it.
THEOREM CreatedIsShown == Spec => CreatedThreadOpens
<1> DEFINE Inv == /\ BirthOf(ops, born, projects, threads)
                  /\ CreatedOf(ops, query, threads)
<1>1. Init => Inv
  <2> SUFFICES ASSUME Init PROVE Inv
    OBVIOUS
  <2>1. \A i \in DOMAIN projects : projects[i] \in born
    BY DEF Init, Range
  <2> QED
    BY <2>1, WorkspaceShape DEF Init, BirthOf, IdsOnce, RowsOnce, StayGone, CreatedOf
<1>2. TypeOK /\ Inv /\ [Next]_vars => Inv'
  <2> SUFFICES ASSUME TypeOK, Inv, [Next]_vars PROVE Inv'
    OBVIOUS
  <2>1. CASE Next
    BY <2>1, BirthStep, CreatedStep
  <2>2. CASE UNCHANGED vars
    BY <2>2 DEF vars, serverVars, BirthOf, IdsOnce, RowsOnce, StayGone, CreatedOf, AwaitedIn
  <2> QED
    BY <2>1, <2>2
<1>3. TypeOK /\ Inv /\ [Next]_vars
      => [\A o \in ops \ ops' :
            /\ o.kind \in {"open", "new"} /\ o.phase = "refetch"
            /\ ~\E x \in ops' : x.thread = o.thread /\ x.kind = o.kind
            /\ Contains(threads[o.project], o.thread)
            => loc' = ThreadAt(o.project, o.thread)]_vars
  <2> SUFFICES ASSUME TypeOK, Inv, Next, NEW o \in ops, o \notin ops',
                      o.kind \in {"open", "new"}, o.phase = "refetch",
                      ~\E x \in ops' : x.thread = o.thread /\ x.kind = o.kind,
                      Contains(threads[o.project], o.thread)
               PROVE  loc' = ThreadAt(o.project, o.thread)
    OBVIOUS
  <2>1. Finishes(o)
    BY OnlyFinishesEnd DEF StillThere
  <2>2. AwaitedIn(query, o.project, o.thread) /\ o.project \in Projects
    BY DEF CreatedOf, Creates, TypeOK, OpsOf
  <2>3. query[o.project].fetch = "idle"
    BY <2>1 DEF Finishes, Refetched, Outdated
  <2>4. Success(query, o.project) /\ Lists(query, o.project, o.thread)
    BY <2>2, <2>3 DEF AwaitedIn, Success, Lists
  <2>5. loc' = Landed(ThreadAt(o.project, o.thread), query)
    <3>1. \E r, d : Render(ThreadAt(o.project, o.thread), query, ops \ {o}, r, d)
      BY <2>1 DEF Finishes, Leads
    <3> QED
      BY <3>1, RenderIs
  <2>6. o.thread # None
    BY KeysDiffer DEF TypeOK, OpsOf, OfThread, OfProject
  <2>7. Landed(ThreadAt(o.project, o.thread), query) = ThreadAt(o.project, o.thread)
    <3> DEFINE l == ThreadAt(o.project, o.thread)
    <3>1. l.page = "work" /\ l.thread = o.thread /\ l.project = o.project
      BY DEF ThreadAt
    <3> HIDE DEF l
    <3>2. Entered(l, query) = l /\ Bounced(l, query) = l /\ Forwarded(l, query) = l
      BY <2>4, <2>6, <3>1 DEF Entered, Bounced, Forwarded
    <3> QED
      BY <3>2 DEF Landed, l
  <2> QED
    BY <2>5, <2>7
<1> QED
  BY <1>1, <1>2, <1>3, TypeCorrect, PTL DEF Spec, CreatedThreadOpens
=============================================================================
