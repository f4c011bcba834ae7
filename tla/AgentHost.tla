------------------------------ MODULE AgentHost ------------------------------
(***************************************************************************)
(* What an Agent tells of its node: the filesystems, which df and findmnt  *)
(* list in their own ways, the I/O of the block devices below them, the    *)
(* filesystem each VM disk is on, and the bridges with their uplinks and   *)
(* addresses.  Filesystems are mounted and unmounted, also a second time   *)
(* or as bind aliases of a directory; every command may fail.              *)
(***************************************************************************)
EXTENDS Integers, FiniteSets, FiniteSetsExt, Sequences, SequencesExt

CONSTANTS
    AllMounts,   \* mounts there may be: [path, ord (its place in the
                 \* order of names), fs, dev, root, kind]
    Always,      \* the mount of "/"
    BlockOf,     \* device -> its block, "" if sysfs has none
    Swaps,       \* active swap devices
    Images,      \* the paths of VM disks
    RequiredRoles, BridgeRoles,   \* roles of bridges, the required ones
    Addresses,   \* [cidr, usable, scope, secondary, dynamic]
    MaxIo, MaxMounts, MaxHostReads   \* bounds

VARIABLES
    mtab,        \* the mounts of the node
    io,          \* block -> the kernel's counter
    ioKept,      \* the committed state: block -> counter
    bridge,      \* role -> what its bridge is: "none", "empty", "taps", "uplink"
    addrs,       \* the addresses of a bridge, in the kernel's order
    told,        \* the last report, or NoReport
    ioPassed, ioTold,   \* I/O of all blocks since their first reading, and its totals reported
    hostCount    \* counted against the bounds

hostVars == <<mtab, io, ioKept, bridge, addrs, told, ioPassed, ioTold, hostCount>>

HostBlocks == {BlockOf[d] : d \in DOMAIN BlockOf} \ {""}
NoReport == [rows |-> {}]
BridgeStates == {"none", "empty", "taps", "uplink"}

HostInit ==
    /\ mtab = {Always}
    /\ io = [b \in HostBlocks |-> 0] /\ ioKept = [b \in {} |-> 0]
    /\ bridge = [r \in BridgeRoles |-> "uplink"]
    /\ addrs = <<>>
    /\ told = NoReport /\ ioPassed = 0 /\ ioTold = 0
    /\ hostCount = [io |-> 0, mounts |-> 0, reads |-> 0]

-----------------------------------------------------------------------------
(* Filesystems. *)

\* Neither below /run, /sys, /proc or /dev nor of a kind that is not storage.
_filesystem_mount_allowed(m) == Len(m.path) = 0 \/ m.path[1] \notin {"run", "sys", "proc", "dev"}
Listed(m) == m.kind = "disk" /\ _filesystem_mount_allowed(m)

\* A row: df does not know that a mount is an alias.
_collect_df_filesystems(ok) ==
    {[path |-> m.path, ord |-> m.ord, dev |-> m.dev, fs |-> m.fs, sub |-> FALSE] :
        m \in {x \in mtab : ok /\ Listed(x)}}
_collect_findmnt_metadata(ok) ==
    {[path |-> m.path, ord |-> m.ord, dev |-> m.dev, fs |-> m.fs, sub |-> ~m.root] :
        m \in {x \in mtab : ok /\ Listed(x)}}

\* "/" first, then the shortest path, then the first name.
Before(r, q) == Len(r.path) < Len(q.path) \/ (Len(r.path) = Len(q.path) /\ r.ord <= q.ord)
_filesystem_identity(row) == row.fs

\* Mutant: the last row of a filesystem is kept.
_dedupe_filesystem_rootsLast(rows) ==
    LET roots == {r \in rows : ~r.sub} IN
    {r \in roots : \A q \in roots : _filesystem_identity(q) = _filesystem_identity(r) => Before(q, r)}
\* One row for each filesystem: the shortest mount that is not an alias.
_dedupe_filesystem_roots(rows) ==
    LET roots == {r \in rows : ~r.sub} IN
    {r \in roots : \A q \in roots : _filesystem_identity(q) = _filesystem_identity(r) => Before(r, q)}

\* What findmnt says of a mount goes before what df says.
collect_filesystems(df, findmnt) ==
    LET ds == _collect_df_filesystems(df)
        fs == _collect_findmnt_metadata(findmnt)
    IN  _dedupe_filesystem_roots(fs \cup {d \in ds : \A f \in fs : f.path # d.path})

\* Active swap has no mount, and rows of its own.
collect_swap_filesystems == {[path |-> <<"SWAP", s>>, ord |-> 0, dev |-> s, fs |-> s, sub |-> FALSE] : s \in Swaps}

\* The filesystem below a VM's disk: the longest mount that its path begins with.
parse_mount_inventory(rows, image) == {r \in rows : IsPrefix(r.path, image)}
map_source_to_mount(image, rows) ==
    LET on == parse_mount_inventory(rows, image) IN
    {r \in on : \A q \in on : Len(q.path) <= Len(r.path)}

device_to_block_name(row) == BlockOf[row.dev]

\* The node's totals count a block once, however many rows are on it; a block that
\* cannot be read counts nothing, and its state stays.
IoGrowth(b) == IF b \in DOMAIN ioKept THEN io[b] - ioKept[b] ELSE 0
collect_node_host(rows, unread) ==
    LET blocks == {device_to_block_name(r) : r \in rows} \ ({""} \cup unread) IN
    [total |-> MapThenSumSet(IoGrowth, blocks),
     state |-> [b \in DOMAIN ioKept \cup blocks |-> IF b \in blocks THEN io[b] ELSE ioKept[b]]]

-----------------------------------------------------------------------------
(* Bridges. *)

\* Addresses that can be used, without duplicates: global ones first, then the
\* primary, then the static one, then by name.
AddressRank(a) == <<a.scope, IF a.secondary THEN 1 ELSE 0, IF a.dynamic THEN 1 ELSE 0, a.cidr>>
Below(a, b) == \E i \in 1..4 : /\ AddressRank(a)[i] < AddressRank(b)[i]
                               /\ \A j \in 1..(i - 1) : AddressRank(a)[j] = AddressRank(b)[j]
parse_ip_addr_json(list) == SetToSortSeq({a \in ToSet(list) : a.usable}, Below)

\* A role without a bridge, members or uplink: an error if it is required, else a note.
record_bridge_unavailable(roles) == roles \cap RequiredRoles
UplinkRows == {r \in BridgeRoles : bridge[r] = "uplink"}
collect_bridge_addresses(ok) ==
    [rows |-> {r \in BridgeRoles : bridge[r] # "none"},
     ipv4 |-> IF ok THEN parse_ip_addr_json(addrs) ELSE <<>>,
     errors |-> record_bridge_unavailable({r \in BridgeRoles : bridge[r] = "none"})
                \cup (IF ok THEN {} ELSE {r \in BridgeRoles : bridge[r] # "none"})]
BridgeErrors == record_bridge_unavailable({r \in BridgeRoles : bridge[r] # "uplink"})

-----------------------------------------------------------------------------
\* The host part of a payload.
HostReport(df, findmnt, ip, unread) ==
    /\ hostCount.reads < MaxHostReads /\ hostCount' = [hostCount EXCEPT !.reads = @ + 1]
    /\ \E rows \in {collect_filesystems(df, findmnt)} :
       \E host \in {collect_node_host(rows \cup collect_swap_filesystems, unread)} :
        /\ told' = [rows |-> rows, mtab |-> mtab, listed |-> df \/ findmnt, alias |-> findmnt,
                    on |-> [i \in Images |-> map_source_to_mount(i, rows)],
                    uplinks |-> UplinkRows, addresses |-> collect_bridge_addresses(ip),
                    errors |-> BridgeErrors \cup collect_bridge_addresses(ip).errors]
        /\ ioKept' = host.state /\ ioTold' = ioTold + host.total
    /\ UNCHANGED <<mtab, io, bridge, addrs, ioPassed>>

\* The node changes.
HostIo(b) ==
    /\ hostCount.io < MaxIo /\ hostCount' = [hostCount EXCEPT !.io = @ + 1]
    /\ io' = [io EXCEPT ![b] = @ + 1]
    /\ ioPassed' = IF b \in DOMAIN ioKept THEN ioPassed + 1 ELSE ioPassed
    /\ told' = NoReport
    /\ UNCHANGED <<mtab, ioKept, bridge, addrs, ioTold>>

Remount(m) ==
    /\ hostCount.mounts < MaxMounts /\ hostCount' = [hostCount EXCEPT !.mounts = @ + 1]
    /\ m # Always
    /\ mtab' = IF m \in mtab THEN mtab \ {m} ELSE {x \in mtab : x.path # m.path} \cup {m}
    /\ told' = NoReport
    /\ UNCHANGED <<io, ioKept, bridge, addrs, ioPassed, ioTold>>

Rebridge(r, s) ==
    /\ hostCount.mounts < MaxMounts /\ hostCount' = [hostCount EXCEPT !.mounts = @ + 1]
    /\ bridge' = [bridge EXCEPT ![r] = s]
    /\ told' = NoReport
    /\ UNCHANGED <<mtab, io, ioKept, addrs, ioPassed, ioTold>>

Readdress(a) ==
    /\ hostCount.mounts < MaxMounts /\ hostCount' = [hostCount EXCEPT !.mounts = @ + 1]
    /\ a \notin ToSet(addrs)
    /\ addrs' \in {<<a>> \o addrs, Append(addrs, a)}
    /\ told' = NoReport
    /\ UNCHANGED <<mtab, io, ioKept, bridge, ioPassed, ioTold>>

HostNext ==
    \/ \E df, findmnt, ip \in BOOLEAN, unread \in SUBSET HostBlocks : HostReport(df, findmnt, ip, unread)
    \/ \E b \in HostBlocks : HostIo(b)
    \/ \E m \in AllMounts : Remount(m)
    \/ \E r \in BridgeRoles, s \in BridgeStates : Rebridge(r, s)
    \/ \E a \in Addresses : Readdress(a)

-----------------------------------------------------------------------------
\* The shapes; one mount at a path.
HostTypeOK ==
    /\ mtab \subseteq AllMounts /\ Always \in mtab
    /\ \A m, n \in mtab : m.path = n.path => m = n
    /\ DOMAIN ioKept \subseteq HostBlocks /\ \A r \in BridgeRoles : bridge[r] \in BridgeStates

Deepest(image) ==
    {m \in told.mtab : /\ IsPrefix(m.path, image)
                       /\ \A n \in told.mtab : IsPrefix(n.path, image) => Len(n.path) <= Len(m.path)}

\* collect_filesystems: "one real mount root per underlying filesystem", "never lose
\* a separate /home", whichever of df and findmnt works; a VM's disk is on the
\* filesystem that is told, unless the path leads through an alias, a second
\* mount of a filesystem or a mount that is not listed; the totals of the
\* node have the I/O of every block once, also of blocks that could not be
\* read, were unmounted or are below several mounts; a payload without errors
\* has an uplink for every required role, and the first address is global if any is.
HostTells ==
    /\ ioTold + MapThenSumSet(IoGrowth, DOMAIN ioKept) = ioPassed
    /\ told # NoReport =>
        /\ \A r, q \in told.rows : r.fs = q.fs => r = q
        /\ told.listed => \A m \in told.mtab : Listed(m) /\ m.root => \E r \in told.rows : r.fs = m.fs
        /\ \A image \in Images : \A m \in Deepest(image) :
            /\ m.path \in {r.path : r \in told.rows} => {r.fs : r \in told.on[image]} = {m.fs}
            /\ told.alias /\ Listed(m) /\ m.root /\ {r.fs : r \in told.on[image]} # {m.fs}
                => \E n \in told.mtab \ {m} : n.fs = m.fs /\ Len(n.path) <= Len(m.path)
        /\ RequiredRoles \ told.errors \subseteq told.uplinks
        /\ \A i \in 1..Len(told.addresses.ipv4) :
            told.addresses.ipv4[1].scope <= told.addresses.ipv4[i].scope
=============================================================================
