----------------------------- MODULE MCSketches -----------------------------
EXTENDS SketchRangeProofs, TLC

MCAccesses == {<<1, 0, 2>>, <<1, 1, 5>>, <<1, 2, 4>>, <<1, 4, 4>>, <<2, 8, 5>>}
MCIndex == [key \in {1, 2} \X (0..7) |-> [row \in {1, 2} |-> key[1] + key[2] * row]]
MCHalf == [key \in {1, 2} \X (0..7) |-> key[2] \div 4]

(* The recursion of inner_record_access (and of inner_frequency, where stop is *)
(* left == start && right == end), call by call: one level of calls below the  *)
(* other.                                                                      *)
Call(start, end, left, right, level) ==
  [start |-> start, end |-> end, left |-> left, right |-> right, level |-> level]
CallsUnder(c, stop) ==
  LET mid == c.start + (c.end - c.start) \div 2
  IN IF c.start = c.end - 1 \/ (stop /\ c.left = c.start /\ c.right = c.end) THEN {}
     ELSE {d \in {Call(c.start, mid, c.left, Min({mid, c.right}), c.level - 1),
                  Call(mid, c.end, Max({c.left, mid}), c.right, c.level - 1)} :
             IF d.start = mid THEN mid < c.right ELSE mid > c.left}
CallTree(left, right, stop) ==
  LET f[k \in 0..Levels] ==
        IF k = 0 THEN {Call(0, End, left, right, Levels - 1)}
        ELSE UNION {CallsUnder(c, stop) : c \in f[k - 1]}
  IN UNION {f[k] : k \in 0..Levels}

\* Visited, Stops, Partial and Cut are what the recursions go through, their
\* assertions hold, and no level is left that has no table.
ASSUME RecursionAssumption ==
  \A left \in 0..End - 1, right \in 0..End - 1 :
    LET whole == CallTree(left, right, FALSE)
        cut == CallTree(left, right, TRUE)
        node(c) == <<c.level, c.start>>
    IN /\ \A c \in whole : /\ c.start <= c.left /\ c.right <= c.end
                           /\ c.end = Until(node(c))
       /\ {node(c) : c \in whole} = Visited(left, right)
       /\ {node(c) : c \in cut} = Stops(left, right) \cup Partial(left, right)
       /\ \A c \in cut : /\ Cut(node(c), left, right) = c.right - c.left
                         /\ node(c) \in Stops(left, right)
                            <=> c.left = c.start /\ c.right = c.end
=============================================================================
