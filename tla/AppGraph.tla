------------------------------- MODULE AppGraph -------------------------------
(***************************************************************************)
(* The workflows app.resolve-resources and app.resolve-topic-ids            *)
(* (cli/workflow_app.go): an application is described, then each of its log *)
(* applications, then each trace instance these are related to, one request *)
(* at a time, into a graph of nodes and edges and three lists of IDs.       *)
(*                                                                         *)
(* A region is the one requests are sent to, which counts also where an     *)
(* answer has none, or another.  NoId is an empty ID or type.               *)
(***************************************************************************)
EXTENDS Naturals, Sequences, SequencesExt

CONSTANTS
  LogApps, Traces, Topics, \* the IDs of log applications and so on
  OwnRegion, OtherRegion, NoId,
  MaxResources,            \* bound on the resources of an application
  MaxRelated               \* bound on the resources a log application names

ASSUME AppGraphAssumption ==
  /\ MaxResources \in Nat /\ MaxRelated \in Nat
  /\ NoId \notin LogApps \cup Traces \cup Topics

Related ==
  [region : {OwnRegion, OtherRegion}, id : Traces \cup Topics \cup {NoId},
   type : {"trace", "log", "metric", NoId}]

\* The resources a log application may name: in order, or with one thing
\* wrong.  A type that is missing or unknown is NoId.
PlausibleRelated ==
  {r \in Related :
     /\ r.type = "trace" => r.id \in Traces
     /\ r.type # "trace" => r.id \in Topics \cup {NoId}
     /\ r.type = "log" \/ (r.region = OwnRegion /\ r.id # NoId)
     /\ r.region = OwnRegion \/ r.id # NoId}

VARIABLES
  walk,  \* where the resolution is, and what it has yet to look at
  graph, \* what the builder has: nodes, edges and the three lists
  heard  \* what the service has answered: ID -> answer, and the requests

graphVars == <<walk, graph, heard>>

NoGraph == [nodes |-> {}, edges |-> {}, logApps |-> <<>>, traces |-> <<>>,
            topics |-> <<>>]

Unheard == [asked |-> <<>>, app |-> <<>>, related |-> <<>>, trace |-> <<>>]

GraphInit ==
  /\ \E topics, dry \in BOOLEAN :
       walk = [pc |-> "start", topicsOnly |-> topics, dry |-> dry,
               apps |-> <<>>, related |-> <<>>, from |-> NoId,
               type |-> NoId, result |-> "none"]
  /\ graph = NoGraph
  /\ heard = Unheard

GraphIdle ==
  /\ walk = [pc |-> "done", topicsOnly |-> FALSE, dry |-> FALSE,
             apps |-> <<>>, related |-> <<>>, from |-> NoId,
             type |-> NoId, result |-> "none"]
  /\ graph = NoGraph
  /\ heard = Unheard

-----------------------------------------------------------------------------
(* The builder                                                              *)

Node(kind, id) == <<kind, id>>
Root == Node("App", NoId)
Edge(from, relation, to) == [from |-> from, relation |-> relation, to |-> to]

Known(list, id) == id \in Range(list)

Joined(list, id) == IF id \in Range(list) THEN list ELSE Append(list, id)

\* addNode and addEdge: what is there is kept as it is.
Reached(g, from, relation, to) ==
  [g EXCEPT !.nodes = @ \cup {to},
            !.edges = @ \cup {Edge(from, relation, to)}]

\* Mutant of AddTopic: the topic of the dependencies is forgotten.
AddTopicOfTrace(g, from, relation, id) ==
  IF id = NoId \/ relation = "dependency" THEN g
  ELSE [Reached(g, from, relation, Node("Topic", id)) EXCEPT
          !.topics = Joined(@, id)]

\* addTraceTopic, and addNode, addList and addEdge of a related topic.
AddTopic(g, from, relation, id) ==
  IF id = NoId THEN g
  ELSE [Reached(g, from, relation, Node("Topic", id)) EXCEPT
          !.topics = Joined(@, id)]

GraphFails ==
  walk' = [walk EXCEPT !.pc = "failed"] /\ UNCHANGED <<graph, heard>>

Ask(request) == [heard EXCEPT !.asked = Append(@, request)]

-----------------------------------------------------------------------------
(* The resolution                                                           *)

\* No AppId is an error; a dry run has a plan and sends nothing.
StartWalk ==
  /\ walk.pc = "start"
  /\ \/ GraphFails
     \/ /\ walk' = IF walk.dry
                   THEN [walk EXCEPT !.pc = "done", !.result = "plan"]
                   ELSE [walk EXCEPT !.pc = "app"]
        /\ UNCHANGED <<graph, heard>>

Resources == SeqOf(LogApps \cup {NoId}, MaxResources)

ListResources(resources) ==
  IF NoId \in Range(resources) THEN walk' = [walk EXCEPT !.pc = "failed"]
                                    /\ UNCHANGED graph
  ELSE LET listed == {Node("AppResource", id) : id \in Range(resources)}
       IN  /\ walk' = [walk EXCEPT !.pc = "finish", !.type = "other"]
           /\ graph' = [NoGraph EXCEPT
                !.nodes = {Root} \cup listed,
                !.edges = {Edge(Root, "contains", node) : node \in listed}]

\* DescribeApp.  The resources of another kind of application are listed; a
\* log application has to be in the region requests are sent to.
DescribeApp ==
  /\ walk.pc = "app"
  /\ \/ /\ heard' = Ask(Root)
        /\ walk' = [walk EXCEPT !.pc = "failed"]
        /\ UNCHANGED graph
     \/ \E type \in {"LogApp", "other", NoId}, resources \in Resources,
           region \in {OwnRegion, OtherRegion} :
          /\ heard' = [Ask(Root) EXCEPT !.app = resources]
          /\ CASE type = "LogApp" /\ region = OwnRegion ->
                    /\ walk' = [walk EXCEPT !.pc = "logapp", !.type = type,
                                            !.apps = resources]
                    /\ graph' = [NoGraph EXCEPT !.nodes = {Root}]
               [] type = "other" -> ListResources(resources)
               [] OTHER -> walk' = [walk EXCEPT !.pc = "failed"]
                           /\ UNCHANGED graph

\* The next resource of the application: no ID is an error, a known one is
\* passed over, another is described.
DescribeLogApp ==
  /\ walk.pc = "logapp" /\ walk.related = <<>> /\ walk.apps # <<>>
  /\ LET id == Head(walk.apps)
         next == [walk EXCEPT !.apps = Tail(@)]
     IN  IF id = NoId THEN GraphFails
         ELSE IF Known(graph.logApps, id)
         THEN walk' = next /\ UNCHANGED <<graph, heard>>
         ELSE /\ graph' = [Reached(graph, Root, "contains", Node("LogApp", id))
                             EXCEPT !.logApps = Joined(@, id)]
              /\ \/ /\ walk' = [walk EXCEPT !.pc = "failed"]
                    /\ heard' = Ask(Node("LogApp", id))
                 \/ \E related \in SeqOf(PlausibleRelated, MaxRelated) :
                      /\ walk' = [next EXCEPT !.from = id,
                                             !.related = related]
                      /\ heard' = [Ask(Node("LogApp", id)) EXCEPT
                                     !.related = Append(@, related)]

\* A related resource that ends the resolution.
Unresolvable(r) == r.region = OtherRegion \/ NoId \in {r.id, r.type}

\* The next resource that the log application is related to.
VisitRelated ==
  /\ walk.pc = "logapp" /\ walk.related # <<>>
  /\ LET r == Head(walk.related)
         next == [walk EXCEPT !.related = Tail(@)]
         from == Node("LogApp", walk.from)
     IN  IF Unresolvable(r) THEN GraphFails
         ELSE IF r.type # "trace"
         THEN /\ walk' = next
              /\ graph' = AddTopic(graph, from, r.type, r.id)
              /\ UNCHANGED heard
         ELSE LET trace == Node("TraceInstance", r.id)
                  seen == Reached(graph, from, "trace", trace)
              IN  IF Known(graph.traces, r.id)
                  THEN walk' = next /\ graph' = seen /\ UNCHANGED heard
                  ELSE \/ /\ walk' = [walk EXCEPT !.pc = "failed"]
                          /\ heard' = Ask(trace)
                          /\ UNCHANGED graph
                       \/ \E own, dependency \in Topics \cup {NoId} :
                            /\ walk' = next
                            /\ graph' = AddTopic(AddTopic(
                                 [seen EXCEPT !.traces = Joined(@, r.id)],
                                 trace, "own", own),
                                 trace, "dependency", dependency)
                            /\ heard' = [Ask(trace) EXCEPT
                                 !.trace = Append(@, {own, dependency})]

\* The result; topics are the result of a log application only.
FinishWalk ==
  /\ \/ walk.pc = "finish"
     \/ walk.pc = "logapp" /\ walk.related = <<>> /\ walk.apps = <<>>
  /\ IF walk.topicsOnly /\ walk.type # "LogApp" THEN GraphFails
     ELSE /\ walk' = [walk EXCEPT !.pc = "done", !.result =
                        IF walk.topicsOnly THEN "topics" ELSE "graph"]
          /\ UNCHANGED <<graph, heard>>

GraphNext ==
  StartWalk \/ DescribeApp \/ DescribeLogApp \/ VisitRelated
    \/ FinishWalk

-----------------------------------------------------------------------------
(* Properties                                                               *)

GraphTypeOK ==
  /\ walk.pc \in {"start", "app", "logapp", "finish", "done", "failed"}
  /\ walk.result \in {"none", "plan", "graph", "topics"}
  /\ IsInjective(graph.topics) /\ Range(graph.topics) \subseteq Topics

Resolved == walk.result \in {"graph", "topics"}

(***************************************************************************)
(* No request is repeated, however often and from wherever a resource is    *)
(* named (workflow_app.go:166, :204), and a dry run makes none.             *)
(***************************************************************************)
DescribedOnce == IsInjective(heard.asked) /\ (walk.dry => heard.asked = <<>>)

RelatedHeard == UNION {Range(heard.related[i]) : i \in DOMAIN heard.related}

(***************************************************************************)
(* The topics of a success are exactly those that the answers reach: what a *)
(* log application names, and what the trace instances it names have        *)
(* (workflow_app.go:180, :309).                                             *)
(***************************************************************************)
TopicsAreReachable ==
  Resolved /\ walk.type = "LogApp" =>
    Range(graph.topics) =
      ({r.id : r \in {q \in RelatedHeard : q.type # "trace"}}
         \cup UNION Range(heard.trace)) \ {NoId}

(***************************************************************************)
(* A success is complete: every resource of the application was described,  *)
(* nothing in it is in another region, and every edge leads from a node of  *)
(* the graph to another (docs/4-Usage.md:184, workflow_app.go:182).         *)
(***************************************************************************)
GraphIsClosed ==
  Resolved =>
    /\ \A e \in graph.edges : {e.from, e.to} \subseteq graph.nodes
    /\ walk.type = "LogApp" => Range(heard.app) = Range(graph.logApps)
    /\ \A r \in RelatedHeard : r.region # OtherRegion

(***************************************************************************)
(* The result of a resolution is the closed graph of everything the answers *)
(* reach, found with one request per resource (workflow_app.go:117).        *)
(***************************************************************************)
GraphIsExact ==
  GraphTypeOK /\ DescribedOnce /\ TopicsAreReachable /\ GraphIsClosed
=============================================================================
