----------------------------- MODULE FilterConfig -----------------------------
(***************************************************************************)
(* The configuration of the native filters of a dashboard: the modal in      *)
(* which filters are added, removed with an "Undo", reordered and made to    *)
(* depend on each other (FiltersConfigModal), the save that sends the        *)
(* changes (setFilterConfiguration), the command that merges them into the   *)
(* stored configuration (UpdateDashboardFiltersCommand), and the state a     *)
(* page keeps of it: the configuration in dashboardInfo.metadata, the        *)
(* filters of the filter bar, and which filters have a data mask.            *)
(*                                                                           *)
(* Of a filter the model keeps its id and the filters it depends on.  One    *)
(* editor works in one browser page; saves take time, fail, and lose their   *)
(* answers, and the modal may be opened again meanwhile.                     *)
(***************************************************************************)
EXTENDS Integers, Sequences, SequencesExt, FiniteSets

CONSTANTS
    N,              \* filters are numbered, the stored ones first
    Stored,         \* configurations to start from: what each filter depends on
    MaxOpens        \* bound on the sessions of the modal

ASSUME FilterConfigAssumption ==
    /\ N \in Nat /\ \A deps \in Stored : deps \in Seq(SUBSET (1 .. N)) /\ Len(deps) <= N
    /\ MaxOpens \in Nat

Ids == 1 .. N
Filter == [id : Ids, deps : SUBSET Ids]

\* There is no circle of dependencies between some filters: every set of ids has one
\* whose filter depends on none of the set.
Grounded(X) ==
    \A C \in (SUBSET Ids) \ {{}} :
        \E f \in C : \A x \in X : x.id = f => x.deps \cap C = {}

\* A configuration to start from, in which filter i depends on deps[i].
Configuration(deps) == [i \in DOMAIN deps |-> [id |-> i, deps |-> deps[i]]]

\* The configurations to start from depend on what they have, and in no circle.
ASSUME StoredAssumption ==
    \A deps \in Stored :
        /\ \A i \in DOMAIN deps : deps[i] \subseteq DOMAIN deps
        /\ Grounded(ToSet(Configuration(deps)))

VARIABLES
    server,     \* the stored native_filter_configuration
    meta,       \* dashboardInfo.metadata.native_filter_configuration
    filters,    \* the ids of nativeFilters.filters
    mask,       \* the native filters with a data mask
    modal,      \* the state of the modal
    saves,      \* the saves under way
    created, opens,
    slips       \* history: "unopened", in a save an opened filter depended on one whose tab
                \* was not opened; "overlap", the modal was opened during a save; "lost",
                \* an answer was lost

vars == <<server, meta, filters, mask, modal, saves, created, opens, slips>>

IdsOf(conf) == {conf[i].id : i \in DOMAIN conf}
Get(conf, f) == CHOOSE x \in ToSet(conf) : x.id = f

\* The elements of a sequence that are in a set, in their order.
Only(s, S) ==
    LET kept[i \in 0 .. Len(s)] ==
            IF i = 0 THEN <<>>
            ELSE IF s[i] \in S THEN Append(kept[i - 1], s[i]) ELSE kept[i - 1]
    IN kept[Len(s)]

Closed == [open |-> FALSE, modified |-> {}, deleted |-> {}, reordered |-> <<>>,
           ordered |-> <<>>, new |-> {}, pending |-> {}, timers |-> {}, gone |-> {},
           current |-> 0, form |-> [f \in {} |-> {}]]

\* Type correctness: the modal edits filters it knows of, the form has an item for
\* the filter that is shown, and no filter is stored twice.
TypeOK ==
    /\ server \in Seq(Filter) /\ IsInjective([i \in DOMAIN server |-> server[i].id])
    /\ meta \in Seq(Filter)
    /\ filters \subseteq Ids /\ mask \subseteq filters
    /\ UNION {modal.modified, modal.deleted, DOMAIN modal.form} \subseteq Ids
    /\ IsInjective(modal.ordered)
    /\ modal.open /\ modal.current # 0 => modal.current \in DOMAIN modal.form
    /\ slips \subseteq {"unopened", "overlap", "lost"}
    /\ created \in 0 .. N /\ opens \in 0 .. MaxOpens

Init ==
    \E deps \in Stored :
        LET conf == Configuration(deps) IN
        /\ server = conf
        /\ meta = conf
        /\ filters = IdsOf(conf)
        /\ mask = IdsOf(conf)
        /\ modal = Closed
        /\ saves = {}
        /\ created = Len(deps) /\ opens = 0
        /\ slips = {}

------------------------------------------------------------------------------
(* Dependencies.                                                           *)

\* The recursion of hasCircularDependency, over pairs of a filter and the trace that
\* led to it; deps maps the filters it knows to their dependencies.
Circular(deps) ==
    LET circular[x \in Ids \X SUBSET Ids] ==
            \/ x[1] \in x[2]
            \/ /\ x[1] \in DOMAIN deps
               /\ \E g \in deps[x[1]] : circular[<<g, x[2] \cup {x[1]}>>]
    IN circular

hasCircularDependency(deps, f) == Circular(deps)[<<f, {}>>]

Removed(m) == m.pending \cup m.gone

\* The initial form item of a filter: the dependencies it is stored with.
Item(f) == IF f \in IdsOf(meta) THEN Get(meta, f).deps ELSE {}

\* canBeUsedAsDependency.
Usable(m) == (DOMAIN m.form \cup IdsOf(meta)) \ Removed(m)

\* Mutant: cycles are not looked for.
AvailableAll(m, f) == {g \in Usable(m) : g # f}

\* getAvailableFilters: the map has the filters of the form, and those are the ones
\* whose tab was opened.
Available(m, f) ==
    {g \in Usable(m) :
        /\ g # f
        /\ ~hasCircularDependency([m.form EXCEPT ![f] = @ \cup {g}], f)}

\* The effect of DependencyList in every mounted form: dependencies that are not
\* available go, which modifies the filter.
Cleaned(m) ==
    LET form == [f \in DOMAIN m.form |->
                    IF f \in Removed(m) THEN m.form[f]
                    ELSE m.form[f] \cap Available(m, f)]
    IN [m EXCEPT !.form = form,
                 !.modified = @ \cup {f \in DOMAIN form : form[f] # m.form[f]}]

\* A filter becomes the current one and its form is rendered.
Shown(m, f) ==
    [m EXCEPT !.current = f,
              !.form = [g \in DOMAIN m.form \cup {f} |->
                            IF g \in DOMAIN m.form THEN m.form[g] ELSE Item(f)]]

\* useRemoveCurrentFilter: when the current filter is gone, the first one of the list
\* that is not removed is shown.
useRemoveCurrentFilter(m) ==
    LET others == Only(m.ordered, Ids \ Removed(m))
    IN IF m.current \in m.gone /\ others # <<>> THEN Shown(m, others[1]) ELSE m

------------------------------------------------------------------------------
(* The modal.                                                              *)

rest == <<server, meta, filters, mask, saves>>

SetModal(m) == modal' = Cleaned(m)

\* The modal opens at a filter of the filter bar, or at the first one.
Open ==
    /\ ~modal.open /\ opens < MaxOpens
    /\ opens' = opens + 1
    /\ LET order == [i \in DOMAIN meta |-> meta[i].id]
           m == [Closed EXCEPT !.open = TRUE, !.ordered = order]
       IN IF order = <<>> THEN SetModal(m)
          ELSE \E f \in ToSet(order) : SetModal(Shown(m, f))
    /\ slips' = IF saves = {} THEN slips ELSE slips \cup {"overlap"}
    /\ UNCHANGED <<rest, created>>

\* handleTabChange.
handleTabChange(f) ==
    /\ modal.open /\ f \in ToSet(modal.ordered) /\ f # modal.current
    /\ SetModal(Shown(modal, f))
    /\ UNCHANGED <<rest, created, opens, slips>>

addFilter ==
    /\ modal.open /\ created < N
    /\ created' = created + 1
    /\ LET m == [modal EXCEPT !.new = @ \cup {created'},
                                 !.modified = @ \cup {created'},
                                 !.ordered = Append(@, created')]
       IN SetModal(Shown(m, created'))
    /\ UNCHANGED <<rest, opens, slips>>

\* A dependency is added or taken away in the form of the current filter
\* (onDependenciesChange).
AddDependency(g) ==
    LET m == modal IN
    /\ m.open /\ m.current \in DOMAIN m.form \ Removed(m)
    /\ g \in Available(m, m.current) \ m.form[m.current]
    /\ SetModal([m EXCEPT !.form[m.current] = @ \cup {g},
                             !.modified = @ \cup {m.current}])
    /\ UNCHANGED <<rest, created, opens, slips>>

DropDependency(g) ==
    LET m == modal IN
    /\ m.open /\ m.current \in DOMAIN m.form \ Removed(m)
    /\ g \in m.form[m.current]
    /\ SetModal([m EXCEPT !.form[m.current] = @ \ {g},
                             !.modified = @ \cup {m.current}])
    /\ UNCHANGED <<rest, created, opens, slips>>

\* handleRemoveItem: the filter is removed for now, and a timer is set that will make
\* it final.
handleRemoveItem(f) ==
    LET m == modal IN
    /\ m.open /\ f \in ToSet(m.ordered) \ Removed(m)
    /\ SetModal([m EXCEPT !.pending = @ \cup {f}, !.timers = @ \cup {f},
                          !.deleted = @ \cup {f}])
    /\ UNCHANGED <<rest, created, opens, slips>>

\* completeFilterRemoval, by the timer: it does not look at what became of the filter.
completeFilterRemoval(f) ==
    LET m == modal IN
    /\ m.open /\ f \in m.timers
    /\ SetModal(useRemoveCurrentFilter(
            [m EXCEPT !.timers = @ \ {f}, !.pending = @ \ {f}, !.gone = @ \cup {f},
                      !.ordered = Only(@, Ids \ {f})]))
    /\ UNCHANGED <<rest, created, opens, slips>>

\* Mutant: the timer is left running.
restoreUncleared(f) ==
    /\ modal.open /\ f \in modal.pending
    /\ SetModal(Shown([modal EXCEPT !.pending = @ \ {f}, !.deleted = @ \ {f}], f))
    /\ UNCHANGED <<rest, created, opens, slips>>

\* restoreFilter, by "Undo?" in the list, a click that also opens the tab, or by the
\* button in the tab: the timer is cleared.
restoreFilter(f) ==
    /\ modal.open /\ f \in modal.pending
    /\ SetModal(Shown([modal EXCEPT !.timers = @ \ {f}, !.pending = @ \ {f},
                                    !.deleted = @ \ {f}], f))
    /\ UNCHANGED <<rest, created, opens, slips>>

\* handleRearrange.
handleRearrange(i, j) ==
    LET m == modal IN
    /\ m.open /\ {i, j} \subseteq DOMAIN m.ordered /\ i # j
    /\ LET order == InsertAt(RemoveAt(m.ordered, i), j, m.ordered[i])
       IN SetModal([m EXCEPT !.ordered = order, !.reordered = order])
    /\ UNCHANGED <<rest, created, opens, slips>>

\* handleCancel and handleConfirmCancel.
handleCancel ==
    /\ modal.open
    /\ modal' = Closed
    /\ UNCHANGED <<rest, created, opens, slips>>

\* Mutant: dependencies on removed filters stay.
cleanKeepsParents(m) ==
    [kept |-> m.form, modified |-> {}]

\* cleanDeletedParents: the dependencies of the form without the removed filters,
\* and the filters that lost one, of the form or of the configuration.
cleanDeletedParents(m) ==
    LET kept == [f \in DOMAIN m.form |-> m.form[f] \cap Usable(m)]
    IN [kept |-> kept,
        modified |-> {f \in DOMAIN m.form \ Removed(m) : kept[f] # m.form[f]}
                     \cup {f \in IdsOf(meta) : ~(Get(meta, f).deps \subseteq Usable(m))}]

\* The changes handleSave and createHandleSave send.  A modified filter whose tab
\* was not opened is built from its configuration, which has no `dependencies` field
\* as a form has, and so loses all its dependencies.
changes(m) ==
    LET clean == cleanDeletedParents(m)
        modified == (m.modified \cup clean.modified) \ m.deleted
        initial == [i \in DOMAIN meta |-> meta[i].id]
    IN [deleted |-> m.deleted,
        modified |-> {IF f \in DOMAIN m.form
                      THEN [id |-> f, deps |-> clean.kept[f]]
                      ELSE [id |-> f, deps |-> {}] : f \in modified},
        reordered |-> IF m.reordered = initial THEN <<>> ELSE m.reordered]

\* The opened filters depend on opened ones only: the check for circles, which knows
\* the form, could follow every dependency of theirs.
FormSeesAll(m) ==
    \A f \in DOMAIN m.form \ Removed(m) : m.form[f] \cap Usable(m) \subseteq DOMAIN m.form

\* handleSave and setFilterConfiguration up to its request; the modal closes.  No
\* changes, no request.
handleSave ==
    LET m == modal
        c == changes(m)
    IN /\ m.open
       /\ modal' = Closed
       /\ IF c.deleted = {} /\ c.modified = {} /\ c.reordered = <<>>
          THEN UNCHANGED saves
          ELSE saves' = saves \cup
                    {[no |-> opens, at |-> "sent", old |-> filters, changes |-> c, conf |-> <<>>]}
       /\ slips' = IF FormSeesAll(m) THEN slips ELSE slips \cup {"unopened"}
       /\ UNCHANGED <<server, meta, filters, mask, created, opens>>

------------------------------------------------------------------------------
(* The server.                                                             *)

\* Mutant: every modified filter is appended.
ApplyTwice(conf, c) ==
    Only(conf, {x \in Filter : x.id \notin c.deleted}) \o SetToSeq(c.modified)

\* _apply_filter_updates: new filters come after the stored ones, in an order the
\* model leaves open.
ApplyFilterUpdates(conf, c) ==
    LET kept == Only(conf, {x \in Filter : x.id \notin c.deleted})
        with(f) == {y \in c.modified : y.id = f}
        updated == [i \in DOMAIN kept |->
                        IF with(kept[i].id) = {} THEN kept[i]
                        ELSE CHOOSE y \in with(kept[i].id) : TRUE]
    IN updated \o SetToSeq({y \in c.modified : y.id \notin IdsOf(updated)})

\* _reorder_and_clean_filters: when there is an order, to which the new filters were
\* added, it says which filters stay.
Reorder(conf, updated, c) ==
    IF c.reordered = <<>> THEN updated
    ELSE LET new == Only(updated, {x \in Filter : x.id \notin IdsOf(conf) \cup ToSet(c.reordered)})
             order == Only(c.reordered, IdsOf(updated))
         IN [i \in DOMAIN order |-> Get(updated, order[i])] \o new

Update(s, t) == saves' = (saves \ {s}) \cup {t}

\* validate of the command: the dashboard is read ...
ServerRead ==
    /\ \E s \in saves :
        /\ s.at = "sent"
        /\ Update(s, [s EXCEPT !.at = "read", !.conf = server])
    /\ UNCHANGED <<server, meta, filters, mask, modal, created, opens, slips>>

\* ... and run: the changes are merged into what was read, and stored.
ServerWrite ==
    /\ \E s \in saves :
        LET conf == Reorder(s.conf, ApplyFilterUpdates(s.conf, s.changes), s.changes) IN
        /\ s.at = "read"
        /\ server' = conf
        /\ Update(s, [s EXCEPT !.at = "stored", !.conf = conf])
    /\ UNCHANGED <<meta, filters, mask, modal, created, opens, slips>>

------------------------------------------------------------------------------
(* The answer, in the page.                                                *)

\* Mutant: the data masks of the old filters are kept as they are.
MaskAfterOld(s) == s.old

\* updateDataMaskForFilterChanges: the old filters, which were read before the
\* request, without the deleted ones, and the modified ones.
MaskAfter(s) == (s.old \ s.changes.deleted) \cup {y.id : y \in s.changes.modified}

\* The rest of setFilterConfiguration: the configuration becomes the answer, and
\* handleFilterChangesComplete puts its filters over the ones there are.
SaveComplete ==
    /\ \E s \in saves :
        /\ s.at = "stored"
        /\ saves' = saves \ {s}
        /\ meta' = s.conf
        /\ filters' = filters \cup IdsOf(s.conf)
        /\ mask' = MaskAfter(s)
    /\ UNCHANGED <<server, modal, created, opens, slips>>

\* The request fails, or its answer is lost.
SaveFailed ==
    /\ \E s \in saves :
        /\ saves' = saves \ {s}
        /\ slips' = IF s.at = "stored" THEN slips \cup {"lost"} ELSE slips
    /\ UNCHANGED <<server, meta, filters, mask, modal, created, opens>>

Next ==
    \/ Open \/ addFilter \/ handleCancel \/ handleSave
    \/ \E f \in Ids :
        \/ handleTabChange(f) \/ AddDependency(f) \/ DropDependency(f)
        \/ handleRemoveItem(f) \/ completeFilterRemoval(f) \/ restoreFilter(f)
    \/ \E i, j \in 1 .. N : handleRearrange(i, j)
    \/ ServerRead \/ ServerWrite \/ SaveComplete \/ SaveFailed

Spec == Init /\ [][Next]_vars

------------------------------------------------------------------------------
(* Properties.                                                             *)

\* The list of the modal and the changes it will send agree: a filter is sent as
\* deleted exactly when it is shown as removed, and the list has the configured and
\* the new filters, without those that are gone.
ModalAgrees ==
    "overlap" \notin slips /\ modal.open =>
        /\ modal.deleted = Removed(modal)
        /\ ToSet(modal.ordered) = (IdsOf(meta) \cup modal.new) \ modal.gone

\* No stored filter depends on a filter that is not stored: whoever removes a
\* filter takes it out of the dependencies of the others, opened or not
\* (cleanDeletedParents).
DependenciesExist ==
    slips \subseteq {"unopened"} =>
        \A x \in ToSet(server) : x.deps \subseteq IdsOf(server)

\* The stored filters do not depend on each other in a circle, which is what
\* getAvailableFilters looks for before it offers a dependency, as long as in every
\* save the tabs of those filters were opened that an opened one depends on.  It knows
\* the opened forms only: with the tab of the first of two filters alone, the first
\* can be made to depend on the second that depends on it, and the circle is stored.
\* Tabs that nothing opened depends on need not be opened.
NoCircle ==
    slips = {} => Grounded(ToSet(server))

\* When its saves have ended, the page has a data mask for every filter of its
\* configuration, those that were added included.
MaskCoversConfig ==
    slips \subseteq {"unopened"} /\ saves = {} => IdsOf(meta) \subseteq mask
=============================================================================
