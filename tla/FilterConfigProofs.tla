-------------------------- MODULE FilterConfigProofs --------------------------
(***************************************************************************)
(* The safety properties of FilterConfig, for every number of filters, of    *)
(* sessions of the modal and every configuration to start from.              *)
(*                                                                           *)
(* The invariant is that of FilterConfigModalProofs and InvCalm: what a save *)
(* will store, while saves neither overlap nor lose an answer.               *)
(***************************************************************************)
EXTENDS FilterConfigModalProofs

------------------------------------------------------------------------------
(* The save.                                                               *)

\* What a save will store.
Plan(s) ==
    {x \in ToSet(meta) : x.id \notin s.changes.deleted \cup ModIds(s.changes)}
        \cup s.changes.modified

\* Every filter of a set depends on filters of the set only.
Inside(X) == \A x \in X : x.deps \subseteq {y.id : y \in X}

\* What a save that is not stored yet will store is sound.
Sent(s) ==
    LET c == s.changes IN
    /\ Inside(Plan(s))
    /\ slips = {} => Grounded(Plan(s))
    /\ c.reordered # <<>> => IdsOf(meta) \ c.deleted \subseteq ToSet(c.reordered)
    /\ IdsOf(meta) \subseteq s.old
    /\ ModIds(c) \cap c.deleted = {}

\* While saves neither overlap nor lose an answer: the page and the server agree but
\* for the one save under way, and what that stores is sound.
InvCalm ==
    slips \subseteq {"unopened"} =>
        /\ Inside(ToSet(server))
        /\ slips = {} => Grounded(ToSet(server))
        /\ IdsOf(meta) \subseteq mask
        /\ saves = {} => server = meta
        /\ \A s \in saves :
            /\ s.at # "stored" => server = meta /\ Sent(s)
            /\ s.at # "sent" => s.conf = server
            /\ s.at = "stored" => IdsOf(s.conf) \subseteq MaskAfter(s)

\* The inductive invariant.
Inv == InvTypes /\ InvModal /\ InvCalm

\* The filters handleSave sends, and what it says they depend on.
ModSet(m) == (m.modified \cup cleanDeletedParents(m).modified) \ m.deleted
NewDeps(m, f) == IF f \in DOMAIN m.form THEN m.form[f] \cap Usable(m) ELSE {}

\* What handleSave sends.
LEMMA ChangesShape ==
    ASSUME InvTypes
    PROVE  LET c == changes(modal) IN
           /\ c \in Changes /\ Unique(c.modified) /\ IsInjective(c.reordered)
           /\ c.deleted = modal.deleted
           /\ c.modified = {[id |-> f, deps |-> NewDeps(modal, f)] : f \in ModSet(modal)}
           /\ ModIds(c) = ModSet(modal)
           /\ c.reordered # <<>> => c.reordered = modal.reordered
           /\ ModSet(modal) \subseteq filters \cup modal.new
           /\ ModSet(modal) \subseteq Ids
<1> DEFINE m == modal
           clean == cleanDeletedParents(m)
           kept == [f \in DOMAIN m.form |-> m.form[f] \cap Usable(m)]
           c == changes(m)
           initial == [i \in DOMAIN meta |-> meta[i].id]
<1>0. InvPage /\ ModalOK(m, created, {}) BY DEF InvTypes
<1>1. m \in Modals /\ m.form \in Forms /\ m.reordered \in Seq(Ids) /\ m.deleted \in SUBSET Ids
  BY <1>0 DEF ModalOK, Modals
<1>2. DOMAIN m.form \subseteq Ids /\ m.form \in [DOMAIN m.form -> SUBSET Ids]
  BY <1>1, FormShape
<1>3. clean.kept = kept /\ clean.modified \subseteq DOMAIN m.form \cup IdsOf(meta)
  BY DEF cleanDeletedParents
<1>4. ModSet(m) \subseteq filters \cup m.new
  BY <1>0, <1>3 DEF ModSet, ModalOK, InvPage
<1>5. ModSet(m) \subseteq Ids
  <2>1. m.new \in SUBSET Ids BY <1>1 DEF Modals
  <2> QED BY <1>0, <1>4, <2>1 DEF InvPage
<1>6. \A f : (IF f \in DOMAIN m.form THEN [id |-> f, deps |-> kept[f]] ELSE [id |-> f, deps |-> {}])
               = [id |-> f, deps |-> NewDeps(m, f)]
  BY DEF NewDeps
<1> DEFINE mods == {IF f \in DOMAIN m.form THEN [id |-> f, deps |-> clean.kept[f]]
                    ELSE [id |-> f, deps |-> {}] : f \in ModSet(m)}
           order == IF m.reordered = initial THEN <<>> ELSE m.reordered
<1>c. c = [deleted |-> m.deleted, modified |-> mods, reordered |-> order]
  BY Zenon DEF changes, ModSet
<1> HIDE DEF c, mods, order
<1>7. c.deleted = m.deleted /\ c.modified = mods /\ c.reordered = order
  BY <1>c
<1> HIDE DEF clean
<1>8. c.modified = {[id |-> f, deps |-> NewDeps(m, f)] : f \in ModSet(m)}
  <2>1. mods = {IF f \in DOMAIN m.form THEN [id |-> f, deps |-> kept[f]]
                ELSE [id |-> f, deps |-> {}] : f \in ModSet(m)}
    BY <1>3 DEF mods
  <2> HIDE DEF kept
  <2> QED BY <1>6, <1>7, <2>1
<1>9. ASSUME NEW f PROVE NewDeps(m, f) \in SUBSET Ids
  <2>1. CASE f \in DOMAIN m.form
    <3>1. m.form[f] \in SUBSET Ids BY <1>2, <2>1
    <3> QED BY <2>1, <3>1 DEF NewDeps
  <2>2. CASE f \notin DOMAIN m.form BY <2>2 DEF NewDeps
  <2> QED BY <2>1, <2>2
<1>10. c.modified \in SUBSET Filter
  BY <1>5, <1>8, <1>9 DEF Filter
<1>11. Unique(c.modified) /\ ModIds(c) = ModSet(m)
  <2>1. \A y \in c.modified : \E f \in ModSet(m) : y = [id |-> f, deps |-> NewDeps(m, f)]
    BY <1>8
  <2>2. \A f \in ModSet(m) : [id |-> f, deps |-> NewDeps(m, f)] \in c.modified
    BY <1>8
  <2>3. Unique(c.modified) BY <2>1 DEF Unique
  <2>4. ModIds(c) \subseteq ModSet(m) BY <2>1 DEF ModIds
  <2>5. ASSUME NEW f \in ModSet(m) PROVE f \in ModIds(c)
    <3>1. PICK y \in c.modified : y = [id |-> f, deps |-> NewDeps(m, f)] BY <2>2
    <3>2. y.id = f BY <3>1
    <3> QED BY <3>2 DEF ModIds
  <2> QED BY <2>3, <2>4, <2>5
<1>12. c.reordered \in Seq(Ids) /\ IsInjective(c.reordered)
       /\ (c.reordered # <<>> => c.reordered = m.reordered)
  <2>1. IsInjective(<<>>) /\ <<>> \in Seq(Ids) BY DEF IsInjective
  <2>2. IsInjective(m.reordered) BY <1>0 DEF ModalOK
  <2> QED BY <1>1, <1>7, <2>1, <2>2 DEF order
<1>13. c \in Changes
  BY <1>1, <1>c, <1>7, <1>10, <1>12 DEF Changes
<1> QED
  BY <1>4, <1>5, <1>7, <1>8, <1>11, <1>12, <1>13 DEF c

\* What handleSave sends is sound while the modal knows the stored configuration:
\* what will be stored has no dependency on a filter that will not be, and no circle if
\* there was none and the opened filters depend on opened ones only.
LEMMA SavePlan ==
    ASSUME InvTypes, Settled(modal), ModalKnows(modal), NEW s, s.changes = changes(modal)
    PROVE  LET c == changes(modal) IN
           /\ Inside(Plan(s))
           /\ FormSeesAll(modal) /\ Grounded(ToSet(meta)) => Grounded(Plan(s))
           /\ c.reordered # <<>> => IdsOf(meta) \ c.deleted \subseteq ToSet(c.reordered)
           /\ ModIds(c) \cap c.deleted = {}
<1> DEFINE m == modal
           c == changes(m)
           M == ModSet(m)
           U == Usable(m)
           P == Plan(s)
<1>0. InvPage /\ ModalOK(m, created, {}) BY DEF InvTypes
<1>1. /\ c.deleted = m.deleted
      /\ c.modified = {[id |-> f, deps |-> NewDeps(m, f)] : f \in M}
      /\ ModIds(c) = M
      /\ c.reordered # <<>> => c.reordered = m.reordered
  BY ChangesShape
<1>2. m.deleted = Removed(m) BY <1>0 DEF ModalOK
<1>3. P = {x \in ToSet(meta) : x.id \notin Removed(m) \cup M}
            \cup {[id |-> f, deps |-> NewDeps(m, f)] : f \in M}
  BY <1>1, <1>2 DEF Plan
<1> HIDE DEF P, c
<1>4. U = (DOMAIN m.form \cup IdsOf(meta)) \ Removed(m) BY DEF Usable
<1>5. /\ M = (m.modified \cup cleanDeletedParents(m).modified) \ Removed(m)
      /\ \A f \in IdsOf(meta) \ Removed(m) : f \notin M => Get(meta, f).deps \subseteq U
      /\ cleanDeletedParents(m).modified \subseteq DOMAIN m.form \cup IdsOf(meta)
  BY <1>2 DEF ModSet, cleanDeletedParents
<1>s. FormSeesAll(m) => \A f \in DOMAIN m.form \ Removed(m) : m.form[f] \cap U \subseteq DOMAIN m.form
  BY DEF FormSeesAll
<1>u. \A f \in M : NewDeps(m, f) = IF f \in DOMAIN m.form THEN m.form[f] \cap U ELSE {}
  BY DEF NewDeps
<1> HIDE DEF M, U
<1>6. M \subseteq U /\ U \ IdsOf(meta) \subseteq M
  BY <1>0, <1>4, <1>5 DEF ModalOK, ModalKnows
<1>7. \A x \in ToSet(meta) : x.id \in IdsOf(meta) /\ x = Get(meta, x.id)
  <2> TAKE x \in ToSet(meta)
  <2>1. x.id \in IdsOf(meta) BY IdsOfSet
  <2>2. Get(meta, x.id) \in ToSet(meta) /\ Get(meta, x.id).id = x.id BY <2>1, GetProperties
  <2>3. Unique(ToSet(meta)) BY <1>0, DistinctIsUnique DEF InvPage
  <2> QED BY <2>1, <2>2, <2>3 DEF Unique
<1>8. {x.id : x \in P} = U
  <2>1. ASSUME NEW x \in P PROVE x.id \in U
    <3>1. CASE x \in ToSet(meta) /\ x.id \notin Removed(m) BY <1>4, <1>7, <3>1
    <3>2. ASSUME NEW f \in M, x = [id |-> f, deps |-> NewDeps(m, f)] PROVE x.id \in U
      BY <1>6, <3>2
    <3> QED BY <1>3, <3>1, <3>2
  <2>2. ASSUME NEW f \in U PROVE \E x \in P : x.id = f
    <3>1. CASE f \in M
      <4>1. [id |-> f, deps |-> NewDeps(m, f)] \in P BY <1>3, <3>1
      <4> QED BY <4>1
    <3>2. CASE f \notin M
      <4>1. f \in IdsOf(meta) /\ f \notin Removed(m) BY <1>4, <1>6, <3>2
      <4>2. Get(meta, f) \in ToSet(meta) /\ Get(meta, f).id = f BY <4>1, GetProperties
      <4>3. Get(meta, f) \in P BY <1>3, <3>2, <4>1, <4>2
      <4> QED BY <4>2, <4>3
    <3> QED BY <3>1, <3>2
  <2> QED BY <2>1, <2>2
<1>9. Inside(P)
  <2> SUFFICES ASSUME NEW x \in P PROVE x.deps \subseteq U
    BY <1>8 DEF Inside
  <2>1. CASE x \in ToSet(meta) /\ x.id \notin Removed(m) \cup M
    BY <1>5, <1>7, <2>1
  <2>2. ASSUME NEW f \in M, x = [id |-> f, deps |-> NewDeps(m, f)] PROVE x.deps \subseteq U
    BY <2>2 DEF NewDeps, U
  <2> QED BY <1>3, <2>1, <2>2
<1>10. ASSUME FormSeesAll(m), Grounded(ToSet(meta)) PROVE Grounded(P)
  <2> SUFFICES ASSUME NEW C \in (SUBSET Ids) \ {{}},
                      ~\E f \in C : \A x \in P : x.id = f => x.deps \cap C = {}
               PROVE  FALSE
    BY Zenon DEF Grounded
  <2>0. \A f \in C : \E x \in P : x.id = f /\ x.deps \cap C # {} OBVIOUS
  <2>1. C \subseteq U BY <1>8, <2>0
  <2> DEFINE D == C \cap DOMAIN m.form
  <2>2. ASSUME NEW f \in D PROVE m.form[f] \cap D # {}
    <3>1. PICK x \in P : x.id = f /\ x.deps \cap C # {} BY <2>0
    <3>2. x.deps \subseteq m.form[f] \cap U
      <4>1. CASE x \in ToSet(meta) /\ x.id \notin Removed(m) \cup M
        <5>1. f \notin m.modified /\ f \notin M BY <1>5, <3>1, <4>1
        <5>2. f \in IdsOf(meta) \ Removed(m) /\ x = Get(meta, f) BY <1>7, <3>1, <4>1
        <5>3. m.form[f] = Item(f) BY <5>1 DEF ModalKnows
        <5> QED BY <1>5, <5>1, <5>2, <5>3 DEF Item
      <4>2. ASSUME NEW g \in M, x = [id |-> g, deps |-> NewDeps(m, g)]
            PROVE  x.deps \subseteq m.form[f] \cap U
        BY <1>u, <3>1, <4>2
      <4> QED BY <1>3, <4>1, <4>2
    <3>3. f \in DOMAIN m.form \ Removed(m) BY <1>4, <2>1
    <3>4. m.form[f] \cap U \subseteq DOMAIN m.form BY <1>10, <1>s, <3>3
    <3> QED BY <3>1, <3>2, <3>4
  <2>3. CASE D # {}
    <3>1. D \subseteq Removed(m) BY <2>2, <2>3 DEF Settled
    <3> QED BY <1>4, <2>1, <2>3, <3>1
  <2>4. CASE D = {}
    <3>1. ASSUME NEW f \in C PROVE \E x \in ToSet(meta) : x.id = f /\ x.deps \cap C # {}
      <4>1. PICK x \in P : x.id = f /\ x.deps \cap C # {} BY <2>0
      <4>2. ASSUME NEW g \in M, x = [id |-> g, deps |-> NewDeps(m, g)] PROVE FALSE
        BY <1>u, <2>4, <4>1, <4>2
      <4> QED BY <1>3, <4>1, <4>2
    <3>2. \E f \in C : \A x \in ToSet(meta) : x.id = f => x.deps \cap C = {}
      BY <1>10, Zenon DEF Grounded
    <3> QED BY <3>1, <3>2
  <2> QED BY <2>3, <2>4
<1>11. c.reordered # <<>> => IdsOf(meta) \ c.deleted \subseteq ToSet(c.reordered)
  BY <1>1, <1>2 DEF ModalKnows, Removed
<1>12. ModIds(c) \cap c.deleted = {}
  BY <1>1, <1>2, <1>5
<1> QED
  BY <1>9, <1>10, <1>11, <1>12 DEF c, P

\* What the server stores for a save: the filters that stay and the modified ones, less
\* those that are not in the order; the new ones are never among these.
LEMMA MergeShape ==
    ASSUME NEW s, SaveOK(s), s.at = "read"
    PROVE  LET c == s.changes
               R == Reorder(s.conf, ApplyFilterUpdates(s.conf, c), c)
           IN /\ R \in Seq(Filter) /\ Distinct(R)
              /\ ToSet(R) = {x \in {y \in ToSet(s.conf) : y.id \notin c.deleted \cup ModIds(c)}
                                     \cup c.modified : Stays(s.conf, c, x)}
              /\ IdsOf(R) \subseteq IdsOf(s.conf) \cup ModIds(c)
              /\ Fresh(s) \subseteq IdsOf(R)
<1> DEFINE c == s.changes
           u == ApplyFilterUpdates(s.conf, c)
           R == Reorder(s.conf, u, c)
<1>0. s \in Saves BY DEF SaveOK
<1>1. s.conf \in Seq(Filter) /\ c \in Changes BY <1>0 DEF Saves
<1>2. /\ Distinct(s.conf) /\ Unique(c.modified) /\ IsInjective(c.reordered)
      /\ Fresh(s) \cap IdsOf(s.conf) = {}
  BY DEF SaveOK
<1>3. /\ u \in Seq(Filter) /\ Distinct(u)
      /\ ToSet(u) = {y \in ToSet(s.conf) : y.id \notin c.deleted \cup ModIds(c)} \cup c.modified
  BY <1>1, <1>2, ApplyProperties
<1> HIDE DEF u, c
<1>4. /\ R \in Seq(Filter) /\ Distinct(R)
      /\ ToSet(R) = {x \in ToSet(u) : Stays(s.conf, c, x)}
  BY <1>1, <1>2, <1>3, ReorderProperties
<1> HIDE DEF R
<1>5. IdsOf(R) \subseteq IdsOf(s.conf) \cup ModIds(c)
  BY <1>3, <1>4, IdsOfSet DEF ModIds
<1>6. Fresh(s) \subseteq IdsOf(R)
  <2> SUFFICES ASSUME NEW f \in Fresh(s) PROVE f \in IdsOf(R) OBVIOUS
  <2>1. PICK y \in c.modified : y.id = f BY DEF Fresh, ModIds, c
  <2>2. y \in ToSet(R) BY <1>2, <1>3, <1>4, <2>1 DEF Stays
  <2> QED BY <2>1, <2>2, IdsOfSet
<1> QED
  BY <1>3, <1>4, <1>5, <1>6 DEF R, u, c

\* A configuration to start from: the filters are numbered, depend on each other only,
\* and in no circle.
LEMMA ConfigurationShape ==
    ASSUME NEW deps \in Stored
    PROVE  LET conf == Configuration(deps) IN
           /\ conf \in Seq(Filter) /\ Distinct(conf)
           /\ Len(deps) \in 0 .. N /\ IdsOf(conf) = 1 .. Len(deps)
           /\ Inside(ToSet(conf)) /\ Grounded(ToSet(conf))
<1> DEFINE conf == Configuration(deps)
           n == Len(deps)
<1>1. deps \in Seq(SUBSET (1 .. N)) /\ n <= N BY FilterConfigAssumption
<1>2. n \in 0 .. N /\ DOMAIN deps = 1 .. n BY <1>1, FilterConfigAssumption
<1>3. 1 .. n \subseteq Ids BY <1>2, FilterConfigAssumption DEF Ids
<1>4. /\ DOMAIN conf = 1 .. n
      /\ \A i \in 1 .. n : conf[i] = [id |-> i, deps |-> deps[i]]
  BY <1>2 DEF Configuration
<1>5. \A i \in 1 .. n : deps[i] \subseteq 1 .. n
  BY <1>2, StoredAssumption
<1> HIDE DEF n
<1>6. Grounded(ToSet(conf)) BY StoredAssumption
<1>7. conf \in Seq(Filter)
  <2>1. \A i \in 1 .. n : conf[i] \in Filter BY <1>3, <1>4, <1>5 DEF Filter
  <2>2. conf \in [1 .. n -> Filter]
    <3>1. conf = [i \in 1 .. n |-> conf[i]] BY <1>2 DEF Configuration
    <3> HIDE DEF conf
    <3> QED BY <2>1, <3>1
  <2> QED BY <1>2, <2>2
<1> HIDE DEF conf
<1>8. Distinct(conf) BY <1>4 DEF Distinct, IsInjective
<1>9. IdsOf(conf) = 1 .. n BY <1>4 DEF IdsOf
<1>10. Inside(ToSet(conf))
  <2> SUFFICES ASSUME NEW x \in ToSet(conf) PROVE x.deps \subseteq IdsOf(conf)
    BY IdsOfSet DEF Inside
  <2>1. PICK i \in 1 .. n : x = conf[i] BY <1>4 DEF ToSet
  <2> QED BY <1>4, <1>5, <1>9, <2>1
<1> QED BY <1>2, <1>6, <1>7, <1>8, <1>9, <1>10 DEF conf, n

\* The invariant holds when the page is loaded.
LEMMA InitInv == Init => Inv
<1> SUFFICES ASSUME NEW deps \in Stored, server = Configuration(deps),
                    meta = Configuration(deps), filters = IdsOf(Configuration(deps)),
                    mask = IdsOf(Configuration(deps)), modal = Closed, saves = {},
                    created = Len(deps), opens = 0, slips = {}
             PROVE  Inv
  BY Zenon DEF Init
<1> DEFINE conf == Configuration(deps)
<1>1. /\ conf \in Seq(Filter) /\ Distinct(conf)
      /\ Len(deps) \in 0 .. N /\ IdsOf(conf) = 1 .. Len(deps)
      /\ Inside(ToSet(conf)) /\ Grounded(ToSet(conf))
  BY ConfigurationShape
<1>2. server = conf /\ meta = conf /\ filters = IdsOf(conf) /\ mask = IdsOf(conf)
  OBVIOUS
<1> HIDE DEF conf
<1>3. IdsOf(conf) \subseteq Ids BY <1>1, IdsInIds
<1>4. InvPage
  BY <1>1, <1>2, <1>3, FilterConfigAssumption DEF InvPage
<1>5. InvSaves BY DEF InvSaves
<1>6. ModalOK(modal, created, {}) BY ClosedOK
<1>7. InvModal BY DEF InvModal, Closed
<1>8. InvCalm BY <1>1, <1>2 DEF InvCalm
<1> QED BY <1>4, <1>5, <1>6, <1>7, <1>8 DEF Inv, InvTypes

\* What the steps of the modal that send nothing leave as it is.
LEMMA RestStep ==
    ASSUME InvPage, InvSaves, InvCalm, UNCHANGED rest, created' \in created .. N,
           opens' \in 0 .. MaxOpens, slips \subseteq slips',
           slips' \subseteq {"unopened", "overlap", "lost"}
    PROVE  InvPage' /\ InvSaves' /\ InvCalm'
<1>0. server' = server /\ meta' = meta /\ filters' = filters /\ mask' = mask /\ saves' = saves
  BY DEF rest
<1>1. 1 .. created \subseteq 1 .. created' /\ created' \in 0 .. N
  BY DEF InvPage
<1>2. InvPage' BY <1>0, <1>1 DEF InvPage
<1>3. InvSaves' BY <1>0, <1>1 DEF InvSaves, SaveOK, Apart, Fresh
<1>4. InvCalm' BY <1>0 DEF InvCalm, Sent, Plan, MaskAfter
<1> QED BY <1>2, <1>3, <1>4

\* Closing the modal forgets what was edited.
LEMMA ClosedStep ==
    ASSUME modal' = Closed PROVE ModalOK(modal, created, {})' /\ ~modal'.open
<1>1. ModalOK(Closed, 0, {}) BY ClosedOK
<1>2. /\ Closed.new = {} /\ ToSet(Closed.ordered) = {} /\ DOMAIN Closed.form = {}
      /\ ~Closed.open
  BY DEF Closed, ToSet
<1> QED BY <1>1, <1>2 DEF ModalOK, Removed

\* handleCancel.
LEMMA CancelStep ==
    ASSUME Inv, handleCancel PROVE ModalOK(modal, created, {})' /\ InvModal'
<1>1. modal' = Closed /\ UNCHANGED rest /\ slips' = slips BY DEF handleCancel
<1>2. ModalOK(modal, created, {})' /\ ~modal'.open BY <1>1, ClosedStep
<1>3. InvModal' BY <1>1, <1>2 DEF Inv, InvModal, rest
<1> QED BY <1>2, <1>3

\* The modal while the server or the answer of a save changes the rest of the page: it
\* is closed, or opened during a save; its new filters are known to nobody else.
LEMMA ModalKept ==
    ASSUME Inv, modal' = modal, created' = created, saves # {},
           filters \subseteq filters', slips \subseteq slips',
           modal.new \cap (filters' \cup IdsOf(server')) = {},
           \A s \in saves' : modal.new \cap (ModIds(s.changes) \cup IdsOf(s.conf)) = {},
           "overlap" \notin slips => \A s, t \in saves' : s = t
    PROVE  ModalOK(modal, created, {})' /\ InvModal'
<1>1. ModalOK(modal, created, {}) /\ InvModal BY DEF Inv, InvTypes
<1>2. ModalOK(modal, created, {})' BY <1>1 DEF ModalOK, Removed
<1>3. Settled(modal)' <=> Settled(modal) BY DEF Settled, Removed
<1>4. InvModal' BY <1>1, <1>3 DEF InvModal
<1> QED BY <1>2, <1>4

\* handleSave.
LEMMA SaveStep ==
    ASSUME Inv, handleSave PROVE Inv'
<1> DEFINE m == modal
           c == changes(m)
<1>t. PICK t : t = [no |-> opens, at |-> "sent", old |-> filters, changes |-> c, conf |-> <<>>]
  OBVIOUS
<1>0. /\ InvPage /\ InvSaves /\ ModalOK(m, created, {}) /\ InvModal /\ InvCalm /\ InvTypes
  BY DEF Inv, InvTypes
<1>1. /\ m.open /\ modal' = Closed
      /\ saves' = saves \/ saves' = saves \cup {t}
      /\ slips' = IF FormSeesAll(m) THEN slips ELSE slips \cup {"unopened"}
      /\ UNCHANGED <<server, meta, filters, mask, created, opens>>
  BY <1>t, Zenon DEF handleSave
<1>2. /\ c \in Changes /\ Unique(c.modified) /\ IsInjective(c.reordered)
      /\ ModIds(c) \subseteq filters \cup m.new
  BY <1>0, ChangesShape
<1> HIDE DEF c
<1>3. /\ t \in Saves /\ t.at = "sent" /\ t.old = filters /\ t.changes = c /\ t.conf = <<>>
  <2>1. opens \in Nat /\ filters \in SUBSET Ids BY <1>0 DEF InvPage
  <2>2. <<>> \in Seq(Filter) OBVIOUS
  <2> QED BY <1>t, <1>2, <2>1, <2>2 DEF Saves
<1>4. IdsOf(<<>>) = {} /\ Distinct(<<>>) BY DEF IdsOf, Distinct, IsInjective
<1>5. InvPage'
  BY <1>0, <1>1 DEF InvPage
<1>6. Fresh(t) \subseteq m.new BY <1>2, <1>3 DEF Fresh
<1>7. SaveOK(t)
  <2>1. ModIds(c) \subseteq 1 .. created BY <1>0, <1>2 DEF ModalOK, InvPage
  <2>2. Fresh(t) \cap IdsOf(server) = {} BY <1>0, <1>6 DEF ModalOK
  <2> QED BY <1>2, <1>3, <1>4, <2>1, <2>2 DEF SaveOK
<1>8. \A s \in saves : Apart(t, s) /\ Apart(s, t)
  <2> TAKE s \in saves
  <2>1. m.new \cap (ModIds(s.changes) \cup IdsOf(s.conf)) = {} BY <1>0 DEF ModalOK
  <2>2. Fresh(s) \cap (filters \cup m.new) = {} BY <2>1 DEF Fresh
  <2> QED BY <1>2, <1>3, <1>4, <1>6, <2>1, <2>2 DEF Apart
<1>9. /\ \A s \in saves' : SaveOK(s)
      /\ \A s \in saves' : \A u \in saves' \ {s} : Apart(s, u)
  BY <1>0, <1>1, <1>7, <1>8 DEF InvSaves
<1>10. InvSaves'
  BY <1>1, <1>9 DEF InvSaves, SaveOK, Apart, Fresh
<1>11. ModalOK(modal, created, {})' /\ ~modal'.open BY <1>1, ClosedStep
<1>12. InvModal'
  BY <1>0, <1>1, <1>11 DEF InvModal
<1>13. ASSUME slips' \subseteq {"unopened"}
       PROVE  /\ saves = {} /\ server = meta /\ Inside(ToSet(server))
              /\ slips' = {} => Grounded(ToSet(server))
              /\ IdsOf(meta) \subseteq mask
              /\ Inside(Plan(t)) /\ (slips' = {} => Grounded(Plan(t)))
              /\ c.reordered # <<>> => IdsOf(meta) \ c.deleted \subseteq ToSet(c.reordered)
              /\ ModIds(c) \cap c.deleted = {}
              /\ IdsOf(meta) \subseteq t.old
  <2>1. slips \subseteq {"unopened"} /\ "overlap" \notin slips BY <1>1, <1>13
  <2>2. saves = {} /\ Settled(m) /\ ModalKnows(m) BY <1>0, <1>1, <2>1 DEF InvModal
  <2>3. /\ server = meta /\ Inside(ToSet(server)) /\ IdsOf(meta) \subseteq mask
        /\ slips = {} => Grounded(ToSet(server))
    BY <1>0, <2>1, <2>2 DEF InvCalm
  <2>4. slips' = {} => slips = {} /\ FormSeesAll(m) /\ Grounded(ToSet(meta))
    BY <1>1, <2>3
  <2>5. /\ Inside(Plan(t))
        /\ FormSeesAll(m) /\ Grounded(ToSet(meta)) => Grounded(Plan(t))
        /\ c.reordered # <<>> => IdsOf(meta) \ c.deleted \subseteq ToSet(c.reordered)
        /\ ModIds(c) \cap c.deleted = {}
    BY <1>0, <1>3, <2>2, SavePlan DEF c
  <2>6. IdsOf(meta) \subseteq t.old BY <1>0, <1>3 DEF InvPage
  <2> QED BY <2>2, <2>3, <2>4, <2>5, <2>6
<1>14. InvCalm'
  <2> SUFFICES ASSUME slips' \subseteq {"unopened"}
               PROVE  (/\ Inside(ToSet(server))
                       /\ slips = {} => Grounded(ToSet(server))
                       /\ IdsOf(meta) \subseteq mask
                       /\ saves = {} => server = meta
                       /\ \A s \in saves :
                           /\ s.at # "stored" => server = meta /\ Sent(s)
                           /\ s.at # "sent" => s.conf = server
                           /\ s.at = "stored" => IdsOf(s.conf) \subseteq MaskAfter(s))'
    BY DEF InvCalm
  <2>1. Sent(t)' BY <1>1, <1>3, <1>13 DEF Sent, Plan
  <2>2. \A s \in saves' : s = t BY <1>1, <1>13
  <2>3. ASSUME NEW s \in saves'
        PROVE  s.at = "sent" /\ (server = meta)' /\ Sent(s)'
    BY <1>1, <1>3, <1>13, <2>1, <2>2
  <2> QED BY <1>1, <1>13, <2>3
<1> QED BY <1>5, <1>10, <1>11, <1>12, <1>14 DEF Inv, InvTypes

------------------------------------------------------------------------------
(* The server, and the answer.                                             *)

\* The command reads the stored configuration.
LEMMA ReadStep ==
    ASSUME Inv, ServerRead PROVE Inv'
<1>0. /\ InvPage /\ InvSaves /\ ModalOK(modal, created, {}) /\ InvModal /\ InvCalm
  BY DEF Inv, InvTypes
<1>1. PICK s \in saves :
        s.at = "sent" /\ saves' = (saves \ {s}) \cup {[s EXCEPT !.at = "read", !.conf = server]}
  BY DEF ServerRead, Update
<1>2. UNCHANGED <<server, meta, filters, mask, modal, created, opens, slips>>
  BY DEF ServerRead
<1>3. SaveOK(s) /\ \A u \in saves \ {s} : SaveOK(u) /\ Apart(s, u) /\ Apart(u, s)
  BY <1>0 DEF InvSaves
<1>4. s \in Saves /\ server \in Seq(Filter) /\ Distinct(server)
  BY <1>0, <1>3 DEF SaveOK, InvPage
<1>5. PICK t : t = [s EXCEPT !.at = "read", !.conf = server] OBVIOUS
<1>6. t \in Saves /\ t.at = "read" /\ t.old = s.old /\ t.changes = s.changes /\ t.conf = server
  BY <1>4, <1>5 DEF Saves
<1>7. saves' = (saves \ {s}) \cup {t} BY <1>1, <1>5
<1>8. Fresh(t) = Fresh(s) BY <1>6 DEF Fresh
<1>9. Fresh(s) \cap IdsOf(server) = {} /\ IdsOf(server) \subseteq 1 .. created
  BY <1>0, <1>1, <1>3 DEF SaveOK, InvPage
<1>10. SaveOK(t)
  BY <1>3, <1>4, <1>6, <1>8, <1>9 DEF SaveOK
<1>11. \A u \in saves \ {s} : Apart(t, u) /\ Apart(u, t)
  BY <1>1, <1>3, <1>6, <1>8 DEF Apart, SaveOK
<1>12. InvSaves'
  <2>1. /\ \A u \in saves' : SaveOK(u)
        /\ \A u \in saves' : \A v \in saves' \ {u} : Apart(u, v)
    BY <1>0, <1>7, <1>10, <1>11 DEF InvSaves
  <2> QED BY <1>2, <2>1 DEF InvSaves, SaveOK, Apart, Fresh
<1>13. InvPage' BY <1>0, <1>2 DEF InvPage
<1>14. ModalOK(modal, created, {})' /\ InvModal'
  <2>1. \A u \in saves' : modal.new \cap (ModIds(u.changes) \cup IdsOf(u.conf)) = {}
    BY <1>0, <1>6, <1>7 DEF ModalOK
  <2>2. "overlap" \notin slips => \A u, v \in saves' : u = v
    BY <1>0, <1>7 DEF InvModal
  <2>3. modal.new \cap (filters' \cup IdsOf(server')) = {}
    BY <1>0, <1>2 DEF ModalOK
  <2> QED BY <1>2, <2>1, <2>2, <2>3, ModalKept
<1>15. InvCalm'
  <2>1. Sent(s) => Sent(t) BY <1>6 DEF Sent, Plan
  <2>2. slips \subseteq {"unopened"} => server = meta /\ Sent(t)
    BY <1>0, <1>1, <2>1 DEF InvCalm
  <2>3. slips \subseteq {"unopened"} =>
            \A u \in saves' :
                /\ u.at # "stored" => server = meta /\ Sent(u)
                /\ u.at # "sent" => u.conf = server
                /\ u.at = "stored" => IdsOf(u.conf) \subseteq MaskAfter(u)
    BY <1>0, <1>6, <1>7, <2>2 DEF InvCalm
  <2> QED BY <1>0, <1>2, <1>7, <2>3 DEF InvCalm, Sent, Plan, MaskAfter
<1> QED BY <1>12, <1>13, <1>14, <1>15 DEF Inv, InvTypes

\* With one save at a time the order that was sent keeps every filter that was not
\* deleted, and so the command stores what was planned.
LEMMA StoresPlan ==
    ASSUME NEW s, SaveOK(s), s.at = "read", s.conf = meta, Sent(s)
    PROVE  ToSet(Reorder(s.conf, ApplyFilterUpdates(s.conf, s.changes), s.changes)) = Plan(s)
<1> DEFINE c == s.changes
<1>1. ToSet(Reorder(s.conf, ApplyFilterUpdates(s.conf, c), c)) = {x \in Plan(s) : Stays(meta, c, x)}
  BY MergeShape DEF Plan
<1>2. ASSUME NEW x \in Plan(s) PROVE Stays(meta, c, x)
  <2>1. x.id \notin c.deleted BY DEF Sent, Plan, ModIds
  <2> QED BY <2>1 DEF Sent, Stays
<1> QED BY <1>1, <1>2

\* The command stores the merged configuration.
LEMMA WriteStep ==
    ASSUME Inv, ServerWrite PROVE Inv'
<1>0. /\ InvPage /\ InvSaves /\ ModalOK(modal, created, {}) /\ InvModal /\ InvCalm
  BY DEF Inv, InvTypes
<1>1. PICK s \in saves :
        /\ s.at = "read"
        /\ server' = Reorder(s.conf, ApplyFilterUpdates(s.conf, s.changes), s.changes)
        /\ saves' = (saves \ {s}) \cup {[s EXCEPT !.at = "stored", !.conf = server']}
  BY DEF ServerWrite, Update
<1>2. UNCHANGED <<meta, filters, mask, modal, created, opens, slips>>
  BY DEF ServerWrite
<1>3. SaveOK(s) /\ \A u \in saves \ {s} : SaveOK(u) /\ Apart(s, u) /\ Apart(u, s)
  BY <1>0 DEF InvSaves
<1>4. PICK R : R = server' OBVIOUS
<1>5. /\ R \in Seq(Filter) /\ Distinct(R)
      /\ IdsOf(R) \subseteq IdsOf(s.conf) \cup ModIds(s.changes)
      /\ Fresh(s) \subseteq IdsOf(R)
  BY <1>1, <1>3, <1>4, MergeShape
<1>6. PICK t : t = [s EXCEPT !.at = "stored", !.conf = R] OBVIOUS
<1>7. t \in Saves /\ t.at = "stored" /\ t.old = s.old /\ t.changes = s.changes /\ t.conf = R
  <2>1. s \in Saves BY <1>3 DEF SaveOK
  <2> QED BY <1>5, <1>6, <2>1 DEF Saves
<1>8. saves' = (saves \ {s}) \cup {t} BY <1>1, <1>4, <1>6
<1>9. Fresh(t) = Fresh(s) BY <1>7 DEF Fresh
<1>10. IdsOf(R) \subseteq 1 .. created BY <1>3, <1>5 DEF SaveOK
<1>11. InvPage' BY <1>0, <1>2, <1>4, <1>5, <1>10 DEF InvPage
<1>12. InvSaves'
  <2>1. ASSUME NEW u \in saves' PROVE SaveOK(u)'
    <3>1. CASE u = t
      BY <1>2, <1>3, <1>5, <1>7, <1>9, <1>10, <3>1 DEF SaveOK, Fresh
    <3>2. CASE u \in saves \ {s}
      <4>1. SaveOK(u) /\ (u.at # "stored" => Fresh(u) \cap IdsOf(R) = {})
        BY <1>3, <1>5, <3>2 DEF Apart
      <4> QED BY <1>2, <1>4, <4>1 DEF SaveOK, Fresh
    <3> QED BY <1>8, <3>1, <3>2
  <2>2. \A u \in saves \ {s} : Apart(t, u) /\ Apart(u, t)
    BY <1>3, <1>5, <1>7 DEF Apart
  <2>3. \A u \in saves' : \A v \in saves' \ {u} : Apart(u, v)
    BY <1>0, <1>8, <2>2 DEF InvSaves
  <2>4. \A u, v : Apart(u, v)' <=> Apart(u, v) BY <1>2 DEF Apart, Fresh
  <2> QED BY <2>1, <2>3, <2>4 DEF InvSaves
<1>13. ModalOK(modal, created, {})' /\ InvModal'
  <2>0. modal.new \cap IdsOf(R) = {} BY <1>0, <1>5 DEF ModalOK
  <2>1. \A u \in saves' : modal.new \cap (ModIds(u.changes) \cup IdsOf(u.conf)) = {}
    BY <1>0, <1>7, <1>8, <2>0 DEF ModalOK
  <2>2. "overlap" \notin slips => \A u, v \in saves' : u = v
    BY <1>0, <1>8 DEF InvModal
  <2>3. modal.new \cap (filters' \cup IdsOf(server')) = {}
    BY <1>0, <1>2, <1>4, <2>0 DEF ModalOK
  <2> QED BY <1>2, <2>1, <2>2, <2>3, ModalKept
<1>14. ASSUME slips \subseteq {"unopened"}
       PROVE  /\ Inside(ToSet(R)) /\ (slips = {} => Grounded(ToSet(R)))
              /\ IdsOf(meta) \subseteq mask
              /\ saves' = {t} /\ IdsOf(R) \subseteq MaskAfter(t)
  <2>1. saves = {s} BY <1>0, <1>14 DEF InvModal
  <2>2. s.conf = meta /\ Sent(s) /\ IdsOf(meta) \subseteq mask
    BY <1>0, <1>1, <1>14 DEF InvCalm
  <2>3. ToSet(R) = Plan(s) BY <1>1, <1>3, <1>4, <2>2, StoresPlan
  <2>4. Inside(ToSet(R)) /\ (slips = {} => Grounded(ToSet(R)))
    BY <2>2, <2>3 DEF Sent
  <2>5. ASSUME NEW x \in Plan(s) PROVE x.id \in MaskAfter(t)
    <3>1. CASE x \in s.changes.modified BY <1>7, <3>1 DEF MaskAfter
    <3>2. CASE x \in ToSet(meta) /\ x.id \notin s.changes.deleted
      <4>1. x.id \in s.old BY <2>2, <3>2, IdsOfSet DEF Sent
      <4> QED BY <1>7, <3>2, <4>1 DEF MaskAfter
    <3> QED BY <3>1, <3>2 DEF Plan
  <2>6. IdsOf(R) \subseteq MaskAfter(t) BY <2>3, <2>5, IdsOfSet
  <2> QED BY <1>8, <2>1, <2>2, <2>4, <2>6
<1>15. InvCalm'
  BY <1>2, <1>4, <1>7, <1>14 DEF InvCalm, MaskAfter
<1> QED BY <1>11, <1>12, <1>13, <1>15 DEF Inv, InvTypes

\* The page takes the answer in.
LEMMA CompleteStep ==
    ASSUME Inv, SaveComplete PROVE Inv'
<1>0. /\ InvPage /\ InvSaves /\ ModalOK(modal, created, {}) /\ InvModal /\ InvCalm
  BY DEF Inv, InvTypes
<1>1. PICK s \in saves :
        /\ s.at = "stored" /\ saves' = saves \ {s} /\ meta' = s.conf
        /\ filters' = filters \cup IdsOf(s.conf) /\ mask' = MaskAfter(s)
  BY DEF SaveComplete
<1>2. UNCHANGED <<server, modal, created, opens, slips>> BY DEF SaveComplete
<1>3. SaveOK(s) BY <1>0 DEF InvSaves
<1>4. /\ s.conf \in Seq(Filter) /\ Distinct(s.conf) /\ s.old \subseteq filters
      /\ IdsOf(s.conf) \subseteq 1 .. created /\ ModIds(s.changes) \ filters \subseteq IdsOf(s.conf)
  BY <1>1, <1>3 DEF SaveOK, Saves, Fresh
<1>5. MaskAfter(s) \subseteq filters' BY <1>1, <1>4 DEF MaskAfter, ModIds
<1>6. IdsOf(s.conf) \subseteq Ids BY <1>4, IdsInIds
<1>7. InvPage' BY <1>0, <1>1, <1>2, <1>4, <1>5, <1>6 DEF InvPage
<1>8. InvSaves'
  <2>1. \A u : Fresh(u)' \subseteq Fresh(u) BY <1>1 DEF Fresh
  <2>2. ASSUME NEW u \in saves' PROVE SaveOK(u)'
    <3>1. SaveOK(u) BY <1>0, <1>1 DEF InvSaves
    <3> QED BY <1>1, <1>2, <2>1, <3>1 DEF SaveOK
  <2>3. ASSUME NEW u \in saves', NEW v \in saves' \ {u} PROVE Apart(u, v)'
    <3>1. Apart(u, v) BY <1>0, <1>1 DEF InvSaves
    <3> QED BY <2>1, <3>1 DEF Apart
  <2> QED BY <2>2, <2>3 DEF InvSaves
<1>9. ModalOK(modal, created, {})' /\ InvModal'
  <2>1. modal.new \cap (filters' \cup IdsOf(server')) = {}
    BY <1>0, <1>1, <1>2 DEF ModalOK
  <2>2. \A u \in saves' : modal.new \cap (ModIds(u.changes) \cup IdsOf(u.conf)) = {}
    BY <1>0, <1>1 DEF ModalOK
  <2>3. "overlap" \notin slips => \A u, v \in saves' : u = v
    BY <1>0, <1>1 DEF InvModal
  <2> QED BY <1>1, <1>2, <2>1, <2>2, <2>3, ModalKept
<1>10. InvCalm'
  <2>1. slips \subseteq {"unopened"} =>
            saves = {s} /\ s.conf = server /\ IdsOf(s.conf) \subseteq MaskAfter(s)
            /\ Inside(ToSet(server)) /\ (slips = {} => Grounded(ToSet(server)))
    BY <1>0, <1>1 DEF InvModal, InvCalm
  <2> QED BY <1>1, <1>2, <2>1 DEF InvCalm
<1> QED BY <1>7, <1>8, <1>9, <1>10 DEF Inv, InvTypes

\* The page learns nothing of a save.
LEMMA FailedStep ==
    ASSUME Inv, SaveFailed PROVE Inv'
<1>0. /\ InvPage /\ InvSaves /\ ModalOK(modal, created, {}) /\ InvModal /\ InvCalm
  BY DEF Inv, InvTypes
<1>1. PICK s \in saves :
        saves' = saves \ {s} /\ slips' = IF s.at = "stored" THEN slips \cup {"lost"} ELSE slips
  BY DEF SaveFailed
<1>2. UNCHANGED <<server, meta, filters, mask, modal, created, opens>> BY DEF SaveFailed
<1>3. InvPage' BY <1>0, <1>1, <1>2 DEF InvPage
<1>4. InvSaves' BY <1>0, <1>1, <1>2 DEF InvSaves, SaveOK, Apart, Fresh
<1>5. ModalOK(modal, created, {})' /\ InvModal'
  <2>1. modal.new \cap (filters' \cup IdsOf(server')) = {}
    BY <1>0, <1>2 DEF ModalOK
  <2>2. \A u \in saves' : modal.new \cap (ModIds(u.changes) \cup IdsOf(u.conf)) = {}
    BY <1>0, <1>1 DEF ModalOK
  <2>3. "overlap" \notin slips => \A u, v \in saves' : u = v
    BY <1>0, <1>1 DEF InvModal
  <2>4. slips \subseteq slips' /\ filters' = filters /\ saves # {} BY <1>1, <1>2
  <2> QED BY <1>2, <2>1, <2>2, <2>3, <2>4, ModalKept
<1>6. InvCalm'
  <2> SUFFICES ASSUME slips' \subseteq {"unopened"} PROVE InvCalm' BY DEF InvCalm
  <2>1. slips' = slips /\ s.at # "stored" BY <1>1
  <2>2. saves = {s} /\ server = meta BY <1>0, <1>1, <2>1 DEF InvModal, InvCalm
  <2>3. saves' = {} BY <1>1, <2>2
  <2> QED BY <1>0, <1>2, <2>1, <2>2, <2>3 DEF InvCalm
<1> QED BY <1>3, <1>4, <1>5, <1>6 DEF Inv, InvTypes

------------------------------------------------------------------------------
(* The theorems.                                                           *)

\* The steps of the modal that send nothing.
LEMMA ModalStep ==
    ASSUME Inv,
           \/ Open \/ addFilter \/ handleCancel
           \/ \E f \in Ids :
                \/ handleTabChange(f) \/ AddDependency(f) \/ DropDependency(f)
                \/ handleRemoveItem(f) \/ completeFilterRemoval(f) \/ restoreFilter(f)
           \/ \E i, j \in 1 .. N : handleRearrange(i, j)
    PROVE  Inv'
<1>0. InvTypes /\ InvModal /\ InvPage /\ InvSaves /\ InvCalm BY DEF Inv, InvTypes
<1>1. ModalOK(modal, created, {})' /\ InvModal'
  BY <1>0, OpenStep, AddStep, CancelStep, TabStep, DependencyStep, RemoveStep, RemovalStep,
     RearrangeStep
<1>2. /\ created \in 0 .. N /\ opens \in 0 .. MaxOpens
      /\ slips \subseteq {"unopened", "overlap", "lost"}
  BY <1>0 DEF InvPage
<1>3. UNCHANGED rest
  BY Zenon DEF Open, addFilter, handleCancel, handleTabChange, AddDependency, DropDependency,
     handleRemoveItem, completeFilterRemoval, restoreFilter, handleRearrange
<1>4. /\ created' = created \/ (created < N /\ created' = created + 1)
      /\ opens' = opens \/ (opens < MaxOpens /\ opens' = opens + 1)
      /\ slips' = slips \/ slips' = slips \cup {"overlap"}
  <2>1. CASE Open BY <2>1 DEF Open
  <2>2. CASE addFilter BY <2>2 DEF addFilter
  <2>3. CASE ~Open /\ ~addFilter
    <3>1. UNCHANGED <<created, opens, slips>>
      BY <2>3, Zenon DEF handleCancel, handleTabChange, AddDependency, DropDependency,
         handleRemoveItem, completeFilterRemoval, restoreFilter, handleRearrange
    <3> QED BY <3>1
  <2> QED BY <2>1, <2>2, <2>3
<1>5. /\ created' \in created .. N /\ opens' \in 0 .. MaxOpens /\ slips \subseteq slips'
      /\ slips' \subseteq {"unopened", "overlap", "lost"}
  <2>1. created' \in created .. N BY <1>2, <1>4, FilterConfigAssumption
  <2>2. opens' \in 0 .. MaxOpens BY <1>2, <1>4, FilterConfigAssumption
  <2> QED BY <1>2, <1>4, <2>1, <2>2
<1>6. InvPage' /\ InvSaves' /\ InvCalm'
  BY <1>0, <1>3, <1>5, RestStep
<1> QED BY <1>1, <1>6 DEF Inv, InvTypes

\* Nothing changes in a step of something else.
LEMMA StutterStep ==
    ASSUME Inv, UNCHANGED vars PROVE Inv'
<1>0. /\ server' = server /\ meta' = meta /\ filters' = filters /\ mask' = mask
      /\ modal' = modal /\ saves' = saves /\ created' = created /\ opens' = opens
      /\ slips' = slips
  BY DEF vars
<1>1. InvPage' /\ InvSaves'
  BY <1>0 DEF Inv, InvTypes, InvPage, InvSaves, SaveOK, Apart, Fresh
<1>2. ModalOK(modal, created, {})' BY <1>0 DEF Inv, InvTypes, ModalOK, Removed
<1>3. InvCalm' BY <1>0 DEF Inv, InvCalm, Sent, Plan, MaskAfter
<1>4. Settled(modal)' <=> Settled(modal) BY <1>0 DEF Settled, Removed
<1>5. ModalKnows(modal)' <=> ModalKnows(modal)
  BY <1>0, SameItems DEF ModalKnows, Removed
<1>6. InvModal' BY <1>0, <1>4, <1>5 DEF Inv, InvModal
<1> QED BY <1>1, <1>2, <1>3, <1>6 DEF Inv, InvTypes

\* The inductive invariant of the configuration of the filters.
THEOREM FilterConfigInvariance == Spec => []Inv
<1>1. Inv /\ [Next]_vars => Inv'
  <2> SUFFICES ASSUME Inv, [Next]_vars PROVE Inv' OBVIOUS
  <2>1. CASE handleSave BY <2>1, SaveStep
  <2>2. CASE ServerRead BY <2>2, ReadStep
  <2>3. CASE ServerWrite BY <2>3, WriteStep
  <2>4. CASE SaveComplete BY <2>4, CompleteStep
  <2>5. CASE SaveFailed BY <2>5, FailedStep
  <2>6. CASE UNCHANGED vars BY <2>6, StutterStep
  <2> QED BY <2>1, <2>2, <2>3, <2>4, <2>5, <2>6, ModalStep DEF Next
<1> QED BY <1>1, InitInv, PTL DEF Spec

\* The modal edits filters it knows of, and no filter is stored twice, however saves
\* overlap, fail or lose their answers.
THEOREM FilterConfigTypes == Spec => []TypeOK
<1>1. Inv => TypeOK
  <2> SUFFICES ASSUME Inv PROVE TypeOK OBVIOUS
  <2>1. InvPage /\ ModalOK(modal, created, {}) BY DEF Inv, InvTypes
  <2>2. modal \in Modals BY <2>1 DEF ModalOK
  <2>3. modal.form \in Forms /\ modal.modified \subseteq Ids /\ modal.deleted \subseteq Ids
    BY <2>2 DEF Modals
  <2>4. DOMAIN modal.form \subseteq Ids BY <2>3, FormShape
  <2>5. UNION {modal.modified, modal.deleted, DOMAIN modal.form} \subseteq Ids
    BY <2>3, <2>4
  <2>6. IsInjective(modal.ordered) /\ (modal.current # 0 => modal.current \in DOMAIN modal.form)
    BY <2>1 DEF ModalOK
  <2> QED BY <2>1, <2>5, <2>6 DEF InvPage, TypeOK, Distinct
<1> QED BY <1>1, FilterConfigInvariance, PTL

\* The list of the modal and the changes it will send agree: a filter is sent as deleted
\* exactly when it is shown as removed, and the list has every other filter.
THEOREM ModalAgreesAlways == Spec => []ModalAgrees
<1>1. Inv => ModalAgrees
  BY DEF Inv, InvTypes, ModalOK, InvModal, ModalKnows, ModalAgrees
<1> QED BY <1>1, FilterConfigInvariance, PTL

\* Whoever removes a filter takes it out of the dependencies of the others: while saves
\* neither overlap nor lose an answer, no stored filter depends on one that is not.
THEOREM DependenciesStay == Spec => []DependenciesExist
<1>1. Inv => DependenciesExist
  BY IdsOfSet DEF Inv, InvCalm, Inside, DependenciesExist
<1> QED BY <1>1, FilterConfigInvariance, PTL

\* The search for circles before a dependency is offered, and the effect that takes back
\* the ones that are no longer available, keep circles out of what is stored as long as
\* every save is made with the tabs opened that opened filters depend on, and saves
\* neither overlap nor lose an answer.
THEOREM NoCircleStored == Spec => []NoCircle
<1>1. Inv => NoCircle
  BY DEF Inv, InvCalm, NoCircle
<1> QED BY <1>1, FilterConfigInvariance, PTL

\* When its saves have ended, the page has a data mask for every filter it has.
THEOREM MaskCovers == Spec => []MaskCoversConfig
<1>1. Inv => MaskCoversConfig
  BY DEF Inv, InvCalm, MaskCoversConfig
<1> QED BY <1>1, FilterConfigInvariance, PTL
=============================================================================
