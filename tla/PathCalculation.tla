--------------------------- MODULE PathCalculation ---------------------------
(***************************************************************************)
(* ControlCenter::CalculatePath (sdn-netview.cc:151-391).                  *)
(*                                                                         *)
(* CalculatePath keeps a table of rows, each the path to a node and the    *)
(* cost of going on from there to every node, and a flag for every node    *)
(* that has no row yet.  m_num is the number of nodes, m_G the set of      *)
(* pairs whose entry in the matrix is 1, m_edges a function from pairs of  *)
(* nodes to delays.  What reading m_edges inserts, a delay of 0 for a pair *)
(* that is not a link, reads the same as its absence.                      *)
(***************************************************************************)
EXTENDS Naturals, Sequences, FiniteSets, SequencesExt

\* The first min_cost: no path may cost as much.
MaxCost == 9999

Delay(m_edges, i, j) ==
    IF <<i, j>> \in DOMAIN m_edges THEN m_edges[<<i, j>>] ELSE 0

\* Defect, as far as SdnFlow goes: the delay of the link itself, so that a
\* path computed later may differ from the one in m_path.
LinkDelay(m_edges, src, i, k) == Delay(m_edges, i, k)

\* The code reads m_edges[{src,*it}], and *it is the entry of m_G for the
\* link from i to k: it is 1 whatever k is.
LinkCost(m_edges, src, i, k) == Delay(m_edges, src, 1)

Row(path, cost) == [path |-> path, cost |-> cost]

\* The nodes whose flag is 0.
Settled(table) == {Last(table[i].path) : i \in DOMAIN table}

\* The links to go on by: the row, the node and the cost.
Candidates(m_num, m_G, m_edges, src, table) ==
    {c \in { LET end == Last(table[i].path)
             IN  [row |-> i, node |-> k, link |-> <<end, k>>,
                  cost |-> table[i].cost + LinkCost(m_edges, src, end, k)]
             : i \in DOMAIN table, k \in (0 .. m_num - 1) \ Settled(table) } :
        c.link \in m_G /\ c.cost < MaxCost}

Earlier(b, c) == b.row < c.row \/ (b.row = c.row /\ b.node < c.node)

\* Defect: <= for < in the comparison: the last of the cheapest is taken.
PreferredLast(b, c) == b.cost < c.cost \/ (b.cost = c.cost /\ Earlier(c, b))

\* The scan of the table takes the first of the cheapest.
Preferred(b, c) == b.cost < c.cost \/ (b.cost = c.cost /\ Earlier(b, c))

\* There is a candidate when dst can be reached; the code goes on with an
\* uninitialised min_ind when there is none.
NextRow(m_num, m_G, m_edges, src, table) ==
    LET candidates == Candidates(m_num, m_G, m_edges, src, table)
        best == CHOOSE b \in candidates :
                    \A c \in candidates \ {b} : Preferred(b, c)
    IN  Row(Append(table[best.row].path, best.node), best.cost)

CalculatePath(m_num, m_G, m_edges, src, dst) ==
    LET table[n \in 0 .. m_num - 1] ==
            IF n = 0 THEN <<Row(<<src>>, 0)>>
            ELSE LET t == table[n - 1] IN
                 IF Last(t).path[Len(Last(t).path)] = dst THEN t
                 ELSE Append(t, NextRow(m_num, m_G, m_edges, src, t))
    IN  Last(table[m_num - 1]).path

===============================================================================
