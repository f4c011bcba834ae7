------------------------------- MODULE Listings -------------------------------
(***************************************************************************)
(* What the monitoring pages list.  A node is shown when its inventory row *)
(* is neither hidden nor deleted and its Node Group is active; a VM when   *)
(* its own row is shown as well.  Every page checks this in its own way:   *)
(* in one query, by filtering the rows of a first query with the nodes of  *)
(* a second one, or at a gate before the page is built.  All of them read  *)
(* in READ COMMITTED statements, so that pushes, the inventory timer and   *)
(* administrators may come between two reads of one request.               *)
(***************************************************************************)
EXTENDS Integers, FiniteSets, Sequences, SequencesExt, FiniteSetsExt

CONSTANTS
    LNodes,     \* node names, natural numbers: the pages sort by name
    LPairs,     \* <<node, VM>>: where VMs may be
    LCustom,    \* ids of the custom groups
    MaxEdits,   \* changes by pushes, the timer and administrators
    MaxElapse   \* how often time passes

Ungrouped == "ungrouped"
ASSUME ListingsConstants ==
    /\ LNodes \subseteq Nat /\ {p[1] : p \in LPairs} \subseteq LNodes
    /\ LCustom \cap {Ungrouped, "all", "unknown", "none"} = {}
    \* A row of a page is either a node or a VM.
    /\ \A p \in LPairs : p[2] # "node"

VARIABLES
    lnode,    \* node -> its inventory row, its group, the class of its age
    lvm,      \* pair -> its inventory row, the class of its age, its abuse: 0 none, 1 some, 2 critical
    lactive,  \* custom group -> is_active
    lask,     \* the page request in progress, or NoAsk
    lgot,     \* the response of the last step, or NoAsk
    edits, elapsed   \* counted against the bounds

listVars == <<lnode, lvm, lactive, lask, lgot, edits, elapsed>>

\* Classes of age: 0 on time, 1 pushes missed but current, 2 beyond
\* FAST_CURRENT_STALE_SECONDS and down, 3 beyond VM_STALE_SECONDS, 4 beyond
\* NODE_AUTO_DELETE_SECONDS, 5 beyond VM_AUTO_DELETE_SECONDS, 6 never seen.
Ages == 0..6
Never == 6
Current(row) == row.age < 2
\* The rows of pages: a node, or a VM on a node.
NodeRows(ns) == {<<n, "node">> : n \in ns}
AllRows == NodeRows(LNodes) \cup LPairs
Inventory == {"none", "active", "deleted", "hidden"}
GroupIds == LCustom \cup {Ungrouped}
NoAsk == [page |-> "none"]
Filters == {"all", "active", "stale", "hidden"}

\* The first node is in a custom group, the others in none.
ListInit ==
    /\ \E g \in LCustom :
        lnode = [n \in LNodes |->
            [inv |-> "active", grp |-> IF \A m \in LNodes : n <= m THEN g ELSE Ungrouped, age |-> 0]]
    /\ lvm = [p \in LPairs |-> [inv |-> "active", age |-> 0, abuse |-> 0]]
    /\ lactive = [g \in LCustom |-> TRUE]
    /\ lask = NoAsk /\ lgot = NoAsk /\ edits = 0 /\ elapsed = 0

-----------------------------------------------------------------------------
(* Conditions of the queries. *)

ActiveGroup(g) == IF g \in LCustom THEN lactive[g] ELSE g = Ungrouped

\* "ni.node IS NULL OR (...)": a row that the inventory does not know is shown.
Unhidden(row) == row.inv \in {"none", "active"}
Visible(row) == row.inv = "active"

\* The node's group is active; a node without membership is in none.
_effective_group_sql(n) == ActiveGroup(lnode[n].grp)

group_nodes(g) == {n \in LNodes : lnode[n].grp = g}

effective_visible_nodes(g) ==
    {n \in LNodes : /\ Visible(lnode[n]) /\ _effective_group_sql(n)
                    /\ g # "all" => lnode[n].grp = g}

\* The group of the request: all of them, if it is hidden or unknown.
selected_group_id(g) == IF g \in GroupIds /\ ActiveGroup(g) THEN g ELSE "all"

\* Pages that take the number as it is filter by membership.
InGroup(n, g) == g = "all" \/ lnode[n].grp = g

active_groups == {g \in GroupIds : ActiveGroup(g)}

-----------------------------------------------------------------------------
(* The rows of each page, as one statement reads them. *)

\* The overview: current rows.
BaseNodeRows == {n \in LNodes : Current(lnode[n]) /\ Unhidden(lnode[n])}

\* Node Health: nodes with a push in the last seven days.
BaseHealthRows == {n \in LNodes : lnode[n].age < 4 /\ Visible(lnode[n])}

ShownVm(p) == Unhidden(lnode[p[1]]) /\ Unhidden(lvm[p])

\* Top VMs, of the last five minutes and of an older bucket.
_r22_top_visibility_sql(n, g) == _effective_group_sql(n) /\ InGroup(n, g)
TopVmRows(g) ==
    {p \in LPairs : Current(lvm[p]) /\ ShownVm(p) /\ _r22_top_visibility_sql(p[1], g)}
TopVmHistory(g) ==
    {p \in LPairs : lvm[p].age # Never /\ ShownVm(p) /\ _r22_top_visibility_sql(p[1], g)}

\* Storage, one row for each VM with disks, and the nodes of the filter.
_v48140_disk_search_clause(p, g) ==
    Current(lvm[p]) /\ ShownVm(p) /\ _effective_group_sql(p[1]) /\ InGroup(p[1], g)
StorageDiskRows(g) == {p \in LPairs : _v48140_disk_search_clause(p, g)}
_v48137_storage_filter_options(g) ==
    {n \in LNodes : _effective_group_sql(n) /\ Unhidden(lnode[n]) /\ InGroup(n, g)}

\* Storage, one card for each node: no condition on the group's state.  A purge
\* removes the node's mounts.
StorageNodeCards == {n \in LNodes : Current(lnode[n]) /\ Visible(lnode[n])}
_v48140_node_group_cards_fast(g) == {n \in StorageNodeCards : InGroup(n, g)}

\* Current Abuse, and the nodes of its filter; the group's condition needs the
\* inventory row of the node.
CurrentAbuseRows ==
    {p \in LPairs : /\ lvm[p].abuse > 0 /\ Current(lvm[p]) /\ ShownVm(p)
                    /\ lnode[p[1]].inv # "none" /\ _effective_group_sql(p[1])}
_v48139_current_rows(g) == {p \in CurrentAbuseRows : InGroup(p[1], g)}
_v48126_visible_nodes(g) ==
    {p[1] : p \in {q \in LPairs : /\ lvm[q].age < 4 /\ _effective_group_sql(q[1])
                                  /\ Unhidden(lnode[q[1]]) /\ InGroup(q[1], selected_group_id(g))}}

\* Consumption of nodes: all of them, each with its group.
ConsumptionRows == {<<n, lnode[n].grp>> : n \in effective_visible_nodes("all")}

\* The APIs read the current tables, and filter by the inventory afterwards.
ApiNodeRows == {n \in LNodes : lnode[n].age # Never}
ApiVmRows == {p \in LPairs : Current(lvm[p])}
_v48126_is_visible(e) == Unhidden(lnode[e[1]]) /\ (e \in LPairs => Unhidden(lvm[e]))

\* The page of a node lists its current VMs that are not hidden, and counts them.
query_node_bridge(n) == {p \in LPairs : p[1] = n /\ Current(lvm[p]) /\ lvm[p].inv # "hidden"}
get_node_overview(n) == Cardinality({p[2] : p \in query_node_bridge(n)})

\* The gate before a node's page, and before a VM's.
_monitoring_node_visible(n) == n \in effective_visible_nodes("all")
_monitoring_vm_visible(p) == _monitoring_node_visible(p[1]) /\ Unhidden(lvm[p])

\* The places of a VM that may be its newest; the search takes the first node's
\* if two are equal.
get_vm_current_location(v) ==
    LET places == {p \in LPairs : p[2] = v /\ lvm[p].age # Never} IN
    {p \in places : \A q \in places : lvm[p].age <= lvm[q].age}
resolve_direct_vm_search(v) ==
    {p \in get_vm_current_location(v) : \A q \in get_vm_current_location(v) : p[1] <= q[1]}

-----------------------------------------------------------------------------
(* Node Groups: the summary and the nodes of one group. *)

VmsOf(n) == {p \in LPairs : p[1] = n /\ Visible(lvm[p])}
AbuseOf(n) == {p \in VmsOf(n) : lvm[p].abuse > 0 /\ Current(lvm[p])}

SummaryNodes(g) == {n \in group_nodes(g) : Visible(lnode[n])}
SummaryCounts(g) ==
    [vms |-> Cardinality(UNION {VmsOf(n) : n \in SummaryNodes(g)}),
     abuse |-> Cardinality(UNION {AbuseOf(n) : n \in SummaryNodes(g)})]

\* Mutant: hidden nodes are listed.
_node_group_detail_rowsAll(g) ==
    {[node |-> n, vms |-> Cardinality(VmsOf(n)), abuse |-> Cardinality(AbuseOf(n))] :
        n \in group_nodes(g)}
\* One row for each node of the group, with its VMs and its abuse.
_node_group_detail_rows(g) ==
    {[node |-> n, vms |-> Cardinality(VmsOf(n)), abuse |-> Cardinality(AbuseOf(n))] :
        n \in SummaryNodes(g)}

\* The state of a group, from the ages of its nodes and its abuse.
SummaryStatus(nodes, abuse) ==
    CASE nodes = {} -> "empty"
      [] nodes # {} /\ \A n \in nodes : ~Current(lnode[n]) -> "offline"
      [] OTHER -> IF \E n \in nodes : \E p \in AbuseOf(n) : lvm[p].abuse = 2 THEN "critical"
                  ELSE IF abuse > 0 \/ \E n \in nodes : lnode[n].age > 0 THEN "warning"
                  ELSE "healthy"

_node_group_summary_data ==
    [g \in active_groups |->
        [nodes |-> Cardinality(SummaryNodes(g))] @@ SummaryCounts(g)
        @@ [status |-> SummaryStatus(SummaryNodes(g), SummaryCounts(g).abuse)]]

\* all_group_rows, on the administrators' page: all members, hidden ones too.
all_group_rows ==
    [g \in GroupIds |->
        [nodes |-> Cardinality(group_nodes(g)),
         vms |-> Cardinality(UNION {VmsOf(n) : n \in group_nodes(g)})]]

\* The administrators' lists hide nothing; the status filter splits them.
_v48134_status_sql(row, status) ==
    CASE status = "hidden" -> ~Visible(row)
      [] status = "active" -> Visible(row) /\ row.age < 3
      [] status = "stale" -> Visible(row) /\ row.age >= 3
      [] OTHER -> TRUE
_v48134_admin_nodes(status) == {n \in LNodes : lnode[n].inv # "none" /\ _v48134_status_sql(lnode[n], status)}
_v48134_admin_vms(status) == {p \in LPairs : lvm[p].inv # "none" /\ _v48134_status_sql(lvm[p], status)}
admin_nodes_query(status, g) == {n \in _v48134_admin_nodes(status) : InGroup(n, g)}
admin_vms_query(status, g) == {p \in _v48134_admin_vms(status) : InGroup(p[1], g)}

-----------------------------------------------------------------------------
(* Requests. *)

\* What the views read, in order.
index_page == <<"rows", "group", "allow">>
top_node_page == <<"rows", "group", "allow">>
node_health_page == <<"rows", "group", "allow">>
top_page == <<"group", "rows">>
storage_io_page == <<"rows">>
vm_abuse_page == <<"rows">>
bandwidth_consumption_page == <<"rows", "group", "allow">>
node_group_nodes == <<"gate", "rows">>
node_page == <<"gate", "rows">>
vm_page == <<"gate", "locate", "moved">>
search == <<"rows", "gate">>
_v48126_wrap_api_visibility == <<"rows", "allow">>

Reads == [nodes |-> index_page, topnodes |-> top_node_page, health |-> node_health_page, top |-> top_page,
          topold |-> top_page, disks |-> storage_io_page, cards |-> storage_io_page, abuse |-> vm_abuse_page,
          consume |-> bandwidth_consumption_page, detail |-> node_group_nodes, node |-> node_page,
          vm |-> vm_page, search |-> search,
          apinode |-> _v48126_wrap_api_visibility, apivm |-> _v48126_wrap_api_visibility]

\* The group that a request may name, and the entry.
AskedGroups(page) ==
    CASE page \in {"node", "vm", "search", "apinode", "apivm"} -> {"all"}
      [] page = "detail" -> GroupIds
      [] OTHER -> GroupIds \cup {"all", "unknown"}
AskedEntries(page) ==
    CASE page = "node" -> NodeRows(LNodes)
      [] page \in {"vm", "search"} -> LPairs
      [] OTHER -> {<<0, "none">>}

\* Entries that are visible now.  The APIs and the cards of the Storage page do not
\* look at the groups.
Unconcealed(row) == row.inv \notin {"hidden", "deleted"}
Shown(page) ==
    IF page \in {"apinode", "apivm"} THEN {e \in AllRows : _v48126_is_visible(e)}
    ELSE {e \in AllRows : /\ Unconcealed(lnode[e[1]])
                          /\ page # "cards" => ActiveGroup(lnode[e[1]].grp)
                          /\ e \in LPairs => Unconcealed(lvm[e])}

\* What a page may show now.  Behind a gate, what the gate has found is not asked again:
\* the rows are those of the node or of the group that was visible then.
MayShow(page, e) ==
    CASE page = "node" -> Shown(page) \cup {p \in LPairs : p[1] = e[1] /\ Unconcealed(lvm[p])}
      [] page = "detail" -> NodeRows({n \in LNodes : Unconcealed(lnode[n])})
      [] OTHER -> Shown(page)

CurrentNodes == {n \in LNodes : Current(lnode[n])}
CurrentVms == {p \in LPairs : Current(lvm[p])}

\* What a page must show: what it may show, that is current enough and in the
\* group that was asked for.
MustShow(page, g, e) ==
    LET of == CASE page \in {"nodes", "topnodes", "cards"} -> NodeRows(CurrentNodes)
                [] page = "health" -> NodeRows({n \in LNodes : lnode[n].age < 4})
                [] page \in {"consume", "detail"} -> NodeRows(LNodes)
                [] page = "node" -> {e} \cup {p \in CurrentVms : p[1] = e[1]}
                [] page = "vm" -> {p \in {e} : get_vm_current_location(e[2]) \subseteq {e}}
                [] page = "abuse" -> {p \in CurrentVms : lvm[p].abuse > 0}
                [] page \in {"top", "disks", "apivm"} -> CurrentVms
                [] page = "apinode" -> NodeRows({n \in LNodes : lnode[n].age # Never})
                [] OTHER -> {}
        falls == page \in {"nodes", "topnodes", "health", "top", "topold", "consume"} /\ g \notin active_groups
    IN  {x \in of \cap Shown(page) :
            /\ page \notin {"apinode", "apivm"} => lnode[x[1]].inv = "active"
            /\ g = "all" \/ falls \/ lnode[x[1]].grp = g}

\* Nodes that the group of the request may bring; the list of a group brings those
\* that are in it while it is active.
Scope(page, g) ==
    IF page = "detail" THEN {n \in LNodes : lnode[n].grp = g /\ g \in active_groups}
    ELSE {n \in LNodes : g \in active_groups => lnode[n].grp = g}

\* A request starts.  A run has one request and ends with its response.
Ask(page, g, e) ==
    /\ lask = NoAsk /\ lgot = NoAsk
    /\ lask' = [page |-> page, asked |-> g, entry |-> e, group |-> g, todo |-> Reads[page],
                rows |-> {}, may |-> MayShow(page, e), must |-> MustShow(page, g, e), scope |-> Scope(page, g)]
    /\ lgot' = NoAsk
    /\ UNCHANGED <<lnode, lvm, lactive, edits, elapsed>>

PageRows(page, g, e) ==
    CASE page \in {"nodes", "topnodes"} -> NodeRows(BaseNodeRows)
      [] page = "health" -> NodeRows(BaseHealthRows)
      [] page = "top" -> TopVmRows(g)
      [] page = "topold" -> TopVmHistory(g)
      [] page = "disks" -> StorageDiskRows(g)
      [] page = "cards" -> NodeRows(_v48140_node_group_cards_fast(g))
      [] page = "abuse" -> _v48139_current_rows(g)
      [] page = "consume" -> ConsumptionRows
      [] page = "detail" -> NodeRows({r.node : r \in _node_group_detail_rows(g)})
      [] page = "node" -> {e} \cup query_node_bridge(e[1])
      [] page = "search" -> resolve_direct_vm_search(e[2])
      [] page = "apinode" -> NodeRows(ApiNodeRows)
      [] page = "apivm" -> ApiVmRows

\* A second read filters the rows of the first.
\* Mutant: the overview trusts its first query.
AllowedOnce(page, g, rows) ==
    CASE page \in {"nodes", "topnodes", "health"} -> rows
      [] page = "consume" -> NodeRows({r[1] : r \in {x \in rows : g \in {"all", x[2]}}})
      [] page \in {"apinode", "apivm"} -> {e \in rows : _v48126_is_visible(e)}
Allowed(page, g, rows) ==
    CASE page \in {"nodes", "topnodes", "health"} -> rows \cap NodeRows(effective_visible_nodes(g))
      [] page = "consume" -> NodeRows({r[1] : r \in {x \in rows : g \in {"all", x[2]}}})
      [] page \in {"apinode", "apivm"} -> {e \in rows : _v48126_is_visible(e)}

\* A gate answers 404.
Gate(page, g, e, rows) ==
    CASE page = "node" -> _monitoring_node_visible(e[1])
      [] page = "vm" -> _monitoring_vm_visible(e)
      [] page = "detail" -> ActiveGroup(g)
      [] page = "search" -> \A p \in rows : _monitoring_vm_visible(p)

\* A VM that is elsewhere now is redirected there, if it may be seen there.
Moved(e, rows) == IF \A p \in rows : _monitoring_vm_visible(p) THEN rows ELSE {e}

\* The next read of the request; the last one sends the page.
ReadNext ==
    /\ lask # NoAsk
    /\ \E place \in LET now == get_vm_current_location(lask.entry[2]) IN
                      IF Head(lask.todo) = "locate" /\ now # {} THEN now ELSE {lask.entry} :
       LET step == Head(lask.todo)
           ok == step = "gate" => Gate(lask.page, lask.asked, lask.entry, lask.rows)
           next == [lask EXCEPT
                      !.todo = IF ok THEN Tail(@) ELSE <<>>,
                      !.group = IF step = "group" THEN selected_group_id(lask.asked) ELSE @,
                      !.rows = CASE ~ok -> {}
                                 [] step = "rows" -> PageRows(lask.page, lask.group, lask.entry)
                                 [] step = "allow" -> Allowed(lask.page, lask.group, @)
                                 [] step = "locate" -> {place}
                                 [] step = "moved" -> Moved(lask.entry, @)
                                 [] OTHER -> @]
       IN  IF next.todo = <<>> THEN lask' = NoAsk /\ lgot' = next
           ELSE lask' = next /\ lgot' = NoAsk
    /\ UNCHANGED <<lnode, lvm, lactive, edits, elapsed>>

\* A change between two reads: the request may now show and must show what
\* it finds after it, too.
Observed ==
    /\ \E a \in {lask} :
        lask' = IF a = NoAsk THEN NoAsk
                ELSE [a EXCEPT !.may = @ \cup MayShow(a.page, a.entry)',
                               !.must = @ \cap MustShow(a.page, a.asked, a.entry)',
                               !.scope = @ \cup Scope(a.page, a.asked)']
    /\ lgot = NoAsk /\ UNCHANGED lgot

-----------------------------------------------------------------------------
(* Changes. *)

Edit == edits < MaxEdits /\ edits' = edits + 1 /\ UNCHANGED elapsed

\* A push brings a deleted row back, and keeps a hidden one hidden.
Revived(inv) == IF inv = "hidden" THEN "hidden" ELSE "active"

\* A push of a node that reports the VMs vs; the trigger puts a new node into
\* Ungrouped.
ListPush(n, ps, bad) ==
    /\ Edit
    /\ lnode' = [lnode EXCEPT ![n] =
            [inv |-> Revived(@.inv), grp |-> IF @.grp = "none" THEN Ungrouped ELSE @.grp, age |-> 0]]
    /\ lvm' = [p \in LPairs |-> IF p \in ps
            THEN [inv |-> Revived(lvm[p].inv), age |-> 0, abuse |-> bad] ELSE lvm[p]]
    /\ UNCHANGED lactive /\ Observed

\* Administrators hide and restore nodes and VMs, one or several in a transaction;
\* a row that the inventory does not know is not written.
Written(row, inv) == IF row.inv = "none" THEN row ELSE [row EXCEPT !.inv = inv]

NodesWritten(ns, inv) ==
    /\ Edit
    /\ lnode' = [n \in LNodes |-> IF n \in ns THEN Written(lnode[n], inv) ELSE lnode[n]]
    /\ UNCHANGED <<lvm, lactive>> /\ Observed
VmsWritten(ps, inv) ==
    /\ Edit
    /\ lvm' = [p \in LPairs |-> IF p \in ps THEN Written(lvm[p], inv) ELSE lvm[p]]
    /\ UNCHANGED <<lnode, lactive>> /\ Observed

admin_delete_node(n) == NodesWritten({n}, "hidden")
admin_restore_node(n) == NodesWritten({n}, "active")
admin_delete_vm(p) == VmsWritten({p}, "hidden")
admin_restore_vm(p) == VmsWritten({p}, "active")
admin_bulk_nodes(ns) == \E inv \in {"hidden", "active"} : NodesWritten(ns, inv)
admin_bulk_vms(ps) == \E inv \in {"hidden", "active"} : VmsWritten(ps, inv)

\* A group is hidden or restored, a node is moved.
SwitchGroup(g) ==
    /\ Edit /\ lactive' = [lactive EXCEPT ![g] = ~@]
    /\ UNCHANGED <<lnode, lvm>> /\ Observed

MoveNode(n, g) ==
    /\ Edit /\ lnode[n].grp \notin {"none", g} /\ ActiveGroup(g)
    /\ lnode' = [lnode EXCEPT ![n].grp = g]
    /\ UNCHANGED <<lvm, lactive>> /\ Observed

\* The maintenance worker purges the VMs of a node, or the node with them; the
\* row of node_current_fast stays.
PurgedVms(n) ==
    [p \in LPairs |-> IF p[1] = n THEN [inv |-> "none", age |-> Never, abuse |-> 0] ELSE lvm[p]]

PurgeVms(n) ==
    /\ Edit /\ lnode[n].inv # "none"
    /\ lvm' = PurgedVms(n)
    /\ UNCHANGED <<lnode, lactive>> /\ Observed

PurgeNode(n) ==
    /\ Edit /\ lnode[n].inv # "none"
    /\ lnode' = [lnode EXCEPT ![n].inv = "none", ![n].grp = "none"]
    /\ lvm' = PurgedVms(n)
    /\ UNCHANGED lactive /\ Observed

\* The inventory timer: rows that were not seen for too long are deleted, unless
\* they are hidden.
Expired(row, age) ==
    IF row.inv = "active" /\ row.age >= age /\ row.age # Never
    THEN [row EXCEPT !.inv = "deleted"] ELSE row

run_inventory_cleanup_batches ==
    /\ Edit
    /\ lvm' = [p \in LPairs |-> Expired(lvm[p], 5)]
    /\ lnode' = [n \in LNodes |-> Expired(lnode[n], 4)]
    /\ lnode' # lnode \/ lvm' # lvm
    /\ UNCHANGED lactive /\ Observed

\* Time passes: what was not seen since belongs to class a at least.
Elapse(a) ==
    /\ elapsed < MaxElapse /\ elapsed' = elapsed + 1 /\ UNCHANGED edits
    /\ lnode' = [n \in LNodes |-> [lnode[n] EXCEPT !.age = IF @ < a THEN a ELSE @]]
    /\ lvm' = [p \in LPairs |-> [lvm[p] EXCEPT !.age = IF @ < a THEN a ELSE @]]
    /\ UNCHANGED lactive /\ Observed

ListNext ==
    \/ \E page \in DOMAIN Reads : \E g \in AskedGroups(page), e \in AskedEntries(page) : Ask(page, g, e)
    \/ ReadNext
    \/ \E n \in LNodes :
        \/ \E ps \in SUBSET {p \in LPairs : p[1] = n}, bad \in 0..2 : ListPush(n, ps, bad)
        \/ admin_delete_node(n) \/ admin_restore_node(n) \/ PurgeVms(n) \/ PurgeNode(n)
        \/ \E g \in GroupIds : MoveNode(n, g)
    \/ \E p \in LPairs : admin_delete_vm(p) \/ admin_restore_vm(p)
    \/ admin_bulk_nodes(LNodes) \/ admin_bulk_vms(LPairs)
    \/ \E g \in LCustom : SwitchGroup(g)
    \/ run_inventory_cleanup_batches
    \/ \E a \in 1..5 : Elapse(a)

ListSpec == ListInit /\ [][ListNext]_listVars

-----------------------------------------------------------------------------
\* The shapes, and that a node has a membership exactly while it is in the inventory.
ListTypeOK ==
    /\ \A n \in LNodes : /\ lnode[n].inv \in Inventory /\ lnode[n].age \in Ages
                         /\ lnode[n].grp \in GroupIds \cup {"none"}
                         /\ (lnode[n].grp = "none") = (lnode[n].inv = "none")
    /\ \A p \in LPairs : lvm[p].inv \in Inventory /\ lvm[p].age \in Ages
    /\ edits \in 0..MaxEdits /\ elapsed \in 0..MaxElapse

\* "Hidden Node Groups disappear from monitoring", "Hidden parent Nodes are never
\* returned by monitoring APIs": whatever is hidden, moved, deleted or purged between
\* the reads of a page, every row of it was visible at a moment of its request and in
\* the group it was asked for, which for the pages behind a gate was visible at a
\* moment, too; and a row that was visible, current and in the group all the time is
\* on the page.
PagesTell ==
    lgot # NoAsk =>
        /\ lgot.rows \subseteq lgot.may
        /\ lgot.asked # "all" => {e[1] : e \in lgot.rows} \subseteq lgot.scope
        /\ lgot.must \subseteq lgot.rows

\* The pages agree with each other: the summary of a group counts the nodes of its
\* list, its VMs and the rows of its Current Abuse page; the page of a node has
\* the VMs that Top VMs and Storage list; the active groups share out the visible
\* nodes; the nodes that Storage and Current Abuse list can be chosen in their
\* filters; the administrators' filters split their lists.  (The tables alone decide
\* this: it is evaluated outside requests.)
CountsAgree ==
    lask = NoAsk /\ lgot = NoAsk =>
        /\ \A g \in active_groups :
            LET s == _node_group_summary_data[g]
                rows == _node_group_detail_rows(g) IN
            /\ s.nodes = Cardinality(rows) /\ s.nodes <= all_group_rows[g].nodes
            /\ s.vms = MapThenSumSet(LAMBDA r : r.vms, rows) /\ s.vms <= all_group_rows[g].vms
            /\ s.abuse = Cardinality(_v48139_current_rows(g))
            /\ {r.node : r \in rows} = effective_visible_nodes(g)
            /\ s.status = "empty" <=> effective_visible_nodes(g) = {}
            /\ s.status = "healthy" => effective_visible_nodes(g) \subseteq BaseNodeRows /\ s.abuse = 0
            /\ s.status = "offline" => effective_visible_nodes(g) \cap BaseNodeRows = {}
            /\ s.status = "critical" => _v48139_current_rows(g) # {}
        /\ \A n \in effective_visible_nodes("all") :
            /\ query_node_bridge(n) = {p \in TopVmRows("all") : p[1] = n}
            /\ get_node_overview(n) = Cardinality({p \in StorageDiskRows("all") : p[1] = n})
        /\ effective_visible_nodes("all") = UNION {effective_visible_nodes(g) : g \in active_groups}
        /\ \A g \in GroupIds \cup {"all"} :
            /\ {p[1] : p \in StorageDiskRows(g)} \subseteq _v48137_storage_filter_options(g)
            /\ _v48140_node_group_cards_fast(g) \cap effective_visible_nodes("all")
                \subseteq _v48137_storage_filter_options(g)
            /\ g \in active_groups \cup {"all"} =>
                {p[1] : p \in _v48139_current_rows(g)} \subseteq _v48126_visible_nodes(g)
            /\ \A query \in {[s \in Filters |-> NodeRows(admin_nodes_query(s, g))],
                            [s \in Filters |-> admin_vms_query(s, g)]} :
                /\ query["all"] = query["active"] \cup query["stale"] \cup query["hidden"]
                /\ \A s, t \in Filters \ {"all"} : s # t => query[s] \cap query[t] = {}
=============================================================================
