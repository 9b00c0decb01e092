----------------------------- MODULE LfsContents -----------------------------
(***************************************************************************)
(* What the calls of littlefs on open files promise.  An open file is a    *)
(* copy of the contents with a position; what is written to it is stored,  *)
(* all of it or nothing, when it is synchronised or closed.  Of a handle a *)
(* call has failed on nothing is promised but that the others do not       *)
(* suffer from it.                                                         *)
(***************************************************************************)
EXTENDS Integers, Sequences

CONSTANTS
  Files, Handles,
  Modes,           \* what files are opened for
  Sizes, Places,   \* of reads and writes, and where to seek or truncate
  FileMax          \* lfs->file_max, in words

VARIABLES
  stored,          \* contents of the files: <<>> or << contents >>
  opened,          \* of the handles: <<>> or << what is open >>
  got,             \* what the last call returned
  turn             \* numbers the calls, for the data they write

contentsVars == <<stored, opened, got, turn>>

-----------------------------------------------------------------------------
Opened(f, mode, data, pos, good) ==
  [file |-> f, mode |-> mode, data |-> data, pos |-> pos, good |-> good]

(* A call on h leaves one of the values in S behind; if h is not good any  *)
(* value will do for what the handle holds.                                *)
Leaves(h, o) ==
  /\ Len(opened'[h]) = 1
  /\ LET p == opened'[h][1]
     IN  /\ p.file = o.file /\ p.mode = o.mode
         /\ p.good => o.good
         /\ p.good => p = o
  /\ opened' = [opened EXCEPT ![h] = opened'[h]]

Returned(r) == got' = r /\ turn' = turn + 1
Answered(r) == [res |-> r, data |-> <<>>]

Data(t, n) == [k \in 1..n |-> 100 * t + k]       \* what the t-th call writes
Zeros(n)   == [k \in 1..n |-> 0]

Overlaid(d, p, w) ==
  LET low == IF p <= Len(d) THEN SubSeq(d, 1, p) ELSE d \o Zeros(p - Len(d))
  IN  low \o w \o SubSeq(d, p + Len(w) + 1, Len(d))

-----------------------------------------------------------------------------
Open(h, f, mode) ==
  /\ opened[h] = <<>>
  /\ \/ /\ \/ stored[f] = <<>> /\ "CREAT" \notin mode
           \/ stored[f] # <<>> /\ "EXCL" \in mode
        /\ Returned(Answered("refused"))
        /\ UNCHANGED <<stored, opened>>
     \/ /\ stored[f] = <<>> => "CREAT" \in mode
        /\ stored[f] # <<>> => "EXCL" \notin mode
        /\ LET old == IF stored[f] = <<>> THEN <<>> ELSE stored[f][1]
           IN  /\ stored' = [stored EXCEPT ![f] = <<old>>]
               /\ opened' = [opened EXCEPT ![h] =
                    <<Opened(f, mode, IF "TRUNC" \in mode THEN <<>> ELSE old, 0, TRUE)>>]
        /\ Returned(Answered("ok"))

Write(h, n) ==
  /\ opened[h] # <<>>
  /\ LET o == opened[h][1]
         p == IF "APPEND" \in o.mode /\ o.pos < Len(o.data) THEN Len(o.data) ELSE o.pos
     IN  /\ "WR" \in o.mode
         /\ \/ p + n <= FileMax
               /\ Leaves(h, [o EXCEPT !.data = Overlaid(@, p, Data(turn, n)), !.pos = p + n])
               /\ Returned(Answered("ok"))
            \/ p + n > FileMax
               /\ Leaves(h, [o EXCEPT !.pos = p]) /\ Returned(Answered("FBIG"))
            \/ Leaves(h, [o EXCEPT !.good = FALSE]) /\ Returned(Answered("failed"))
  /\ UNCHANGED stored

Read(h, n) ==
  /\ opened[h] # <<>>
  /\ LET o == opened[h][1]
         d == SubSeq(o.data, o.pos + 1, IF o.pos + n < Len(o.data) THEN o.pos + n
                                        ELSE Len(o.data))
     IN  /\ "RD" \in o.mode
         /\ \/ Leaves(h, [o EXCEPT !.pos = @ + Len(d)])
               /\ Returned([res |-> "ok", data |-> IF o.good THEN d ELSE got'.data])
            \/ Leaves(h, [o EXCEPT !.good = FALSE]) /\ Returned(Answered("failed"))
  /\ UNCHANGED stored

Seek(h, p) ==
  /\ opened[h] # <<>>
  /\ \/ Leaves(h, [opened[h][1] EXCEPT !.pos = p]) /\ Returned(Answered("ok"))
     \/ Leaves(h, opened[h][1]) /\ Returned(Answered("INVAL"))
     \/ Leaves(h, [opened[h][1] EXCEPT !.good = FALSE]) /\ Returned(Answered("failed"))
  /\ UNCHANGED stored

Truncate(h, n) ==
  /\ opened[h] # <<>>
  /\ LET o == opened[h][1]
         d == IF n <= Len(o.data) THEN SubSeq(o.data, 1, n)
              ELSE o.data \o Zeros(n - Len(o.data))
     IN  /\ "WR" \in o.mode
         /\ \/ Leaves(h, [o EXCEPT !.data = d]) /\ Returned(Answered("ok"))
            \/ Leaves(h, [o EXCEPT !.good = FALSE]) /\ Returned(Answered("failed"))
  /\ UNCHANGED stored

(* A handle that is not good may store nothing.                            *)
Store(o) ==
  \/ stored' = [stored EXCEPT ![o.file] = <<o.data>>]
  \/ ~o.good /\ stored' = [stored EXCEPT ![o.file] = stored'[o.file]]

Sync(h) ==
  /\ opened[h] # <<>>
  /\ LET o == opened[h][1]
     IN  \/ Leaves(h, o) /\ Store(o) /\ Returned(Answered("ok"))
         \/ Leaves(h, [o EXCEPT !.good = FALSE]) /\ Returned(Answered("failed"))
            /\ UNCHANGED stored

Close(h) ==
  /\ opened[h] # <<>>
  /\ opened' = [opened EXCEPT ![h] = <<>>]
  /\ \/ Store(opened[h][1]) /\ Returned(Answered("ok"))
     \/ UNCHANGED stored /\ Returned(Answered("failed"))

Crash ==
  /\ opened' = [h \in Handles |-> <<>>]
  /\ Returned(Answered("ok"))
  /\ UNCHANGED stored

Init ==
  /\ stored = [f \in Files |-> <<>>] /\ opened = [h \in Handles |-> <<>>]
  /\ got = Answered("ok") /\ turn = 0

Next ==
  \/ Crash
  \/ \E h \in Handles :
       \/ \E f \in Files, m \in Modes : Open(h, f, m)
       \/ \E n \in Sizes : Write(h, n) \/ Read(h, n)
       \/ \E p \in Places : Truncate(h, p)
       \/ \E p \in 0..FileMax : Seek(h, p)
       \/ Sync(h) \/ Close(h)

Spec == Init /\ [][Next]_contentsVars
=============================================================================
