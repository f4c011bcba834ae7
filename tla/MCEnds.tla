-------------------------------- MODULE MCEnds --------------------------------
(***************************************************************************)
(* The two ends of the monitor, one scene each: in a scene one component   *)
(* runs and the others stay as they start.  Scenes "base" and "long" are   *)
(* the Agent's delivery (see MCAgentScenes), scene "snapshot" the snapshot *)
(* behind the VM Consumption page, scene "cache" the cache of pages,       *)
(* scenes "database" and "text" the layer every query goes through, scene  *)
(* "health" the Node Health pages, scenes "charts" and "lines" the charts. *)
(***************************************************************************)
EXTENDS MCAgentScenes, VmSnapshot, PageCache, DbLayer, SqlText, NodeHealth, Charts, ChartLines,
        TLC

CONSTANTS
    v1, v2,     \* VMs
    Scenes      \* the components that run

endVars == <<sv, snapVars, cacheVars, dbVars, textVars, healthVars, chartVars, slots>>

\* The period of the snapshots and its length in slots.
SnapPeriods == <<"24h">>
SnapSpan == [p \in {"24h"} |-> 2]

\* The pages that are asked for, and by whom.
PageAsks == {<<"list", "ann">>, <<"list", "bob">>, <<"nodes", "ann">>}

\* The characters the scanners of SQL disagree about, a few at a time.
TextAlphabets ==
    {{"'", "-", "n", ";"}, {"/", "*", "'", ";"}, {"$", "a", "'", ";"}, {"%", "s", "?", "'"},
     {"M", "(", ")", ",", "'"}}

\* Payloads for the charts: a whole one, one without a list of VMs, one with only
\* performance data and one that measured for a shorter time.
Net(v, bridge, iface, n, sec) ==
    [vm |-> v, bridge |-> bridge, iface |-> iface, bytes |-> n, packets |-> n, sec |-> sec]
ChartPayloads ==
    {[net |-> <<Net("v1", "public", "t1", 2, 2), Net("v1", "private", "t2", 1, 2),
                Net("v2", "public", "t3", 1, 2), Net("v2", "other", "t4", 1, 2)>>,
      perf |-> {"v1", "v2"}, metrics |-> TRUE, complete |-> TRUE, sec |-> 2],
     [net |-> <<Net("v1", "public", "t1", 1, 2)>>,
      perf |-> {}, metrics |-> FALSE, complete |-> FALSE, sec |-> 2],
     [net |-> <<>>, perf |-> {"v2"}, metrics |-> TRUE, complete |-> FALSE, sec |-> 2],
     [net |-> <<Net("v1", "public", "t1", 3, 1)>>,
      perf |-> {"v1"}, metrics |-> TRUE, complete |-> TRUE, sec |-> 2]}

EndsInit ==
    /\ scene \in Scenes
    /\ Init
    /\ SnapInit
    /\ CacheInit
    /\ DbInit
    /\ TextInit
    /\ HealthInit
    /\ ChartsInit
    /\ LinesInit
    \* Only the scanners' scene asks for more than one alphabet.
    /\ scene # "text" => alphabet = CHOOSE a \in Alphabets : TRUE

EndsNext ==
    \/ /\ scene \in {"base", "long"}
       /\ SafetyNext
       /\ UNCHANGED <<snapVars, cacheVars, dbVars, textVars, healthVars, chartVars, slots>>
    \/ /\ scene = "snapshot" /\ SnapNext
       /\ UNCHANGED <<sv, cacheVars, dbVars, textVars, healthVars, chartVars, slots>>
    \/ /\ scene = "cache" /\ CacheNext
       /\ UNCHANGED <<sv, snapVars, dbVars, textVars, healthVars, chartVars, slots>>
    \/ /\ scene = "database" /\ DbNext
       /\ UNCHANGED <<sv, snapVars, cacheVars, textVars, healthVars, chartVars, slots>>
    \/ /\ scene = "text" /\ TextNext
       /\ UNCHANGED <<sv, snapVars, cacheVars, dbVars, healthVars, chartVars, slots>>
    \/ /\ scene = "health" /\ HealthNext
       /\ UNCHANGED <<sv, snapVars, cacheVars, dbVars, textVars, chartVars, slots>>
    \/ /\ scene = "charts" /\ ChartsNext
       /\ UNCHANGED <<sv, snapVars, cacheVars, dbVars, textVars, healthVars, slots>>
    \/ /\ scene = "lines" /\ LinesNext
       /\ UNCHANGED <<sv, snapVars, cacheVars, dbVars, textVars, healthVars, chartVars>>

EndsSpec == EndsInit /\ [][EndsNext]_endVars
-----------------------------------------------------------------------------
\* _r2212_build_snapshot and its readers: a ready generation is whole and has all
\* that had arrived when it settled, and a page keeps the one it selected.
SnapshotsHold == scene = "snapshot" => SnapTypeOK /\ ReadyIsWhole /\ ReadyIsSettled /\ PageKeepsGeneration

\* The page cache: no page is older than an answered change or than its lifetime,
\* and none is another user's.
CachedIsFresh == scene = "cache" => CacheTypeOK /\ AnsweredIsShown /\ StaleBounded /\ OwnPage

\* The database layer: connections return to the pool clean and to one holder at a
\* time, and units of work are atomic.
DatabaseHolds == scene = "database" => DbTypeOK /\ DbHolds

\* What is read: the scanners of SQL agree on what is code; what the pages tell of the
\* nodes' missed pushes is what was missed; the two readers of the charts and the cards
\* beside them agree; and lines end at gaps.
ReadersTell ==
    CASE scene = "text" -> TextTypeOK /\ TextTold
      [] scene = "health" -> HealthTypeOK /\ HealthTold
      [] scene = "charts" -> ChartsTypeOK /\ ChartsTold
      [] scene = "lines" -> LinesTold
      [] OTHER -> TRUE
=============================================================================
