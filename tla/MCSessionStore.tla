-------------------------- MODULE MCSessionStore --------------------------
\* One textured scene seen from two places, once with a damaged block; a flat
\* picture, on which no offset is better than another; one of another size.
EXTENDS SessionStore, TLC

Scene(x, y) == LET v == 40 + 2 * ((x * x * 7 + y * 13 + x * y * 5) % 61) IN <<v, v + 6, 200 - v>>
View(w, dx, at(_, _)) ==
  [w |-> w, h |-> 5, pix |-> [p \in Cells(w, 5) |-> at(p[1] + dx, p[2])]]

Seen    == View(5, 0, Scene)
Shaken  == View(5, 1, Scene)
Damaged == View(5, 0, LAMBDA x, y : IF x >= 2 /\ y >= 2 THEN <<(x + y) * 30, 9, 250>> ELSE Scene(x, y))
Flat    == View(5, 0, LAMBDA x, y : <<90, 90, 90>>)
Smaller == View(4, 0, Scene)

MCPictures ==
  [jpeg |-> {Seen, Shaken, Damaged, Flat, Smaller}, webp |-> {Seen, Shaken},
   raw  |-> {Seen, Smaller}, h264 |-> {Seen, Damaged}]
MCSetups == {<<{"jpeg"}, FALSE>>, <<{"webp"}, FALSE>>, <<{"h264"}, TRUE>>, <<{"raw", "h264"}, FALSE>>}
ReadLoopSymmetry == Permutations(ReadLoops)
=============================================================================
