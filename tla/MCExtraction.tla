---------------------------- MODULE MCExtraction ----------------------------
(***************************************************************************)
(* Keys and solutions for a paper that starts at question 3: none; a key   *)
(* that repeats itself; solutions that name an option, one out of order.   *)
(***************************************************************************)
EXTENDS Extraction
LinesOf == [letters |-> 5, digits |-> 6, prefixed |-> 5]
KeyLine(t, w, b) == [table |-> t, wrapped |-> w, bare |-> b]
Text(n, v, l) == [n |-> n, verdict |-> v, line |-> l]
Backs == {[key |-> <<>>, solutions |-> <<>>],
          [key |-> <<KeyLine(<<>>, <<>>, << <<3, 4>>, <<4, 9>> >>), KeyLine(<< <<3, 1>> >>, <<>>, <<>>),
                     KeyLine(<<>>, << <<3, 2>> >>, << <<4, 3>> >>)>>,
           solutions |-> <<Text(0, 1, 101), Text(3, 0, 102), Text(0, 4, 103), Text(1, 2, 104), Text(4, 1, 105)>>],
          [key |-> <<>>, solutions |-> <<Text(3, 1, 101), Text(0, 4, 102), Text(4, 0, 103), Text(3, 3, 104)>>]}
=============================================================================
