-------------------------------- MODULE Lists --------------------------------
(***************************************************************************)
(* A list of the API as a component of its own: a behaviour either asks it *)
(* for pages or leaves it alone.                                           *)
(***************************************************************************)

CONSTANTS Keys, Limit, MaxChanges

VARIABLES
    listed,  \* whether the list is asked for; otherwise it stays off
    docs, changes, at_query, walk, q, once, edges, hasNext, at, told, seen, stayed

Query == INSTANCE Connection WITH pc <- at_query

ASSUME ListsAssumption == Query!ConnectionAssumption

ListVars == <<docs, changes, at_query, walk, q, once, edges, hasNext, at, told,
              seen, stayed>>

ListOff ==
    /\ docs = "off" /\ changes = "off" /\ at_query = "off" /\ walk = "off"
    /\ q = "off" /\ once = "off" /\ edges = "off" /\ hasNext = "off"
    /\ at = "off" /\ told = "off" /\ seen = "off" /\ stayed = "off"

ListsInit == IF listed THEN Query!Init ELSE ListOff

ListsNext == listed /\ Query!Next /\ UNCHANGED listed

ListsSpec == ListsInit /\ [][ListsNext]_<<listed, ListVars>>

-----------------------------------------------------------------------------
(* The page of a list is the one its arguments describe, the same for its  *)
(* edges, nodes and page information; a walk shows every document that was *)
(* there all the time, once and in order.                                  *)
ListsPaged ==
    listed =>
        /\ Query!TypeOK /\ Query!PageIsRange
        /\ Query!OnePage /\ Query!WalkComplete
=============================================================================
