---------------------------- MODULE MCStateGraph ----------------------------
\* Three calls on one thread, two of which may overlap, over five graphs: two
\* parallel nodes, one of which may interrupt, that join at a finish point; two
\* loops through a router, of a node that changes nothing and one that counts; a
\* fan-out that may send two arguments to one node, with a finish point among
\* its targets; and a graph that does not compile.
EXTENDS StateGraph

MCNodes == 1..3
MCRuns == 1..3
MCResumeNodes == {3}

Plain == [n \in MCNodes |-> <<>>]
End == [n \in MCNodes |-> {<<>>}]
NoSends == [n \in MCNodes |-> {}]

Join == [start |-> <<2, 1>>, edges |-> [Plain EXCEPT ![1] = <<3>>, ![2] = <<3>>],
         routes |-> End, sends |-> NoSends, silent |-> {},
         interrupts |-> {1}, finish |-> {3},
         recursionLimit |-> 3]

Loop == [start |-> <<1>>, edges |-> Plain, routes |-> [End EXCEPT ![1] = {<<1>>}],
         sends |-> NoSends, silent |-> {1}, interrupts |-> {}, finish |-> {},
         recursionLimit |-> 3]

Counter == [start |-> <<1>>, edges |-> Plain,
            routes |-> [End EXCEPT ![1] = {<<1>>}], sends |-> NoSends,
            silent |-> {}, interrupts |-> {}, finish |-> {},
            recursionLimit |-> 2]

FanOut == [start |-> <<1>>, edges |-> Plain, routes |-> End,
           sends |-> [NoSends EXCEPT ![1] = {<<2, 2>>, <<2, 3>>}],
           silent |-> {2}, interrupts |-> {}, finish |-> {3},
           recursionLimit |-> 3]

Circle == [start |-> <<1>>, edges |-> [Plain EXCEPT ![1] = <<2>>, ![2] = <<1>>],
           routes |-> End, sends |-> NoSends, silent |-> {},
           interrupts |-> {}, finish |-> {},
           recursionLimit |-> 3]

MCGraphs == {Join, Loop, Counter, FanOut, Circle}
=============================================================================
