-------------------------- MODULE LineReaderProofs --------------------------
(***************************************************************************)
(* LineReader for every line length, pointer size and heap: the handler    *)
(* stays inside its buffer, sees each line by itself and keeps one copy.   *)
(***************************************************************************)
EXTENDS LineReader, TLAPS

USE LineReaderAssumption DEF BUF_INITIAL_SIZE, BUF_INC

(* The room a byte needs beyond what it writes itself: the next index is    *)
(* inside the buffer too, which never gets smaller than it started.         *)
RoomInv == size >= BUF_INITIAL_SIZE /\ curr_line_offset < size /\ written < size

(* Below the offset the buffer holds the current line. Its first NUL is at  *)
(* text, where one was read; NULs that earlier lines left are at or behind  *)
(* the offset, and the terminator comes before them.                        *)
FirstNul == text \in ends /\ \A i \in ends : text <= i
LineInv ==
  /\ pc \in {"read", "lf"} =>
       IF cut THEN FirstNul /\ text < curr_line_offset
              ELSE text = curr_line_offset /\ \A i \in ends : text <= i
  /\ pc \in {"search", "keep", "copy", "drop"} => curr_line_offset = 0
  /\ LineSeen

(* Which copies exist at every point of the handler.                        *)
CopyInv ==
  /\ pc \in {"read", "lf", "search", "keep", "fault"} =>
       heap = {last_tty_read} \ {Null} /\ filled = heap
  /\ pc \in {"copy", "drop"} =>
       /\ heap = {last_tty_read, tmp} \ {Null}
       /\ tmp = last_tty_read => tmp = Null
  /\ pc = "copy" => filled = {tmp} \ {Null} /\ last_tty_read # Null
  /\ pc = "drop" => filled = heap
  /\ pc = "deleted" => heap = {}

IInv == TypeOK /\ RoomInv /\ LineInv /\ CopyInv

(* The handler starts with an empty line and no copy.                       *)
LEMMA InitIInv == Init => IInv
<1> SUFFICES ASSUME Init PROVE IInv
  OBVIOUS
<1>0. cut \in BOOLEAN
  BY Zenon DEF Init
<1>1. TypeOK /\ RoomInv
  BY <1>0 DEF Init, TypeOK, RoomInv
<1>2. LineInv
  BY DEF Init, LineInv, LineSeen
<1>3. CopyInv
  BY DEF Init, CopyInv
<1> QED BY <1>1, <1>2, <1>3 DEF IInv

(* No step of the handler takes it out of the invariant.                    *)
LEMMA NextIInv == IInv /\ [Next]_vars => IInv'
<1> SUFFICES ASSUME IInv, [Next]_vars PROVE IInv'
  OBVIOUS
<1> USE DEF IInv, TypeOK, RoomInv, CopyInv, memory, line, buffer, copy
<1>0. ASSUME UNCHANGED <<curr_line_offset, ends, text, cut>>,
             pc \in {"keep", "copy", "search"}, pc' \in {"keep", "copy", "drop"}
      PROVE  LineInv'
  BY <1>0 DEF LineInv, LineSeen
<1>1. CASE Read
  <2>1. Room \in Nat /\ Room >= BUF_INITIAL_SIZE /\ curr_line_offset + 1 < Room
    BY DEF Room, NeedsRoom
  <2>2. RoomInv'
    BY <1>1, <2>1 DEF Read
  <2>3. PICK byte \in {"lf", "nul", "other"} :
          /\ pc' = IF byte = "lf" THEN "lf" ELSE "read"
          /\ ends' = IF byte = "nul" THEN ends \cup {curr_line_offset}
                                     ELSE ends \ {curr_line_offset}
          /\ cut' = (cut \/ byte = "nul")
          /\ text' = IF cut' THEN text ELSE text + 1
    BY <1>1 DEF Read
  <2>4. TypeOK' /\ CopyInv'
    BY <1>1, <2>1, <2>3 DEF Read
  <2>5. LineInv'
    <3>1. pc = "read" /\ curr_line_offset' = curr_line_offset + 1 /\ text <= curr_line_offset
          /\ \A i \in ends : i \in Nat /\ text <= i
      BY <1>1 DEF Read, LineInv, FirstNul
    <3>2. CASE cut
      <4>1. cut' /\ text' = text /\ FirstNul /\ text < curr_line_offset
        BY <1>1, <2>3, <3>2 DEF Read, LineInv
      <4>2. text \in ends' /\ \A i \in ends' : text <= i
        BY <2>3, <3>1, <4>1 DEF FirstNul
      <4> QED
        BY <2>3, <3>1, <4>1, <4>2 DEF LineInv, LineSeen, FirstNul
    <3>3. CASE ~cut
      <4>1. text = curr_line_offset
        BY <1>1, <3>3 DEF Read, LineInv
      <4>2. CASE byte = "nul"
        <5>1. cut' /\ text' = text /\ text \in ends'
          BY <2>3, <4>1, <4>2
        <5>2. \A i \in ends' : text <= i
          BY <2>3, <3>1, <4>1, <4>2
        <5> QED
          BY <2>3, <3>1, <5>1, <5>2 DEF LineInv, LineSeen, FirstNul
      <4>3. CASE byte # "nul"
        <5>1. ~cut' /\ text' = curr_line_offset'
          BY <2>3, <3>1, <3>3, <4>1, <4>3
        <5>2. \A i \in ends' : text' <= i
          BY <2>3, <3>1, <4>1, <4>3, <5>1
        <5> QED
          BY <2>3, <5>1, <5>2 DEF LineInv, LineSeen
      <4> QED
        BY <4>2, <4>3
    <3> QED
      BY <3>2, <3>3
  <2> QED BY <2>2, <2>4, <2>5
<1>2. CASE NoRoom
  BY <1>2 DEF NoRoom, LineInv, LineSeen
<1>3. CASE EndLine
  <2>1. TypeOK' /\ RoomInv' /\ CopyInv'
    BY <1>3 DEF EndLine, NextOffset
  <2>2. text' = text /\ ends' = ends \cup {curr_line_offset} /\ pc' = "search"
        /\ curr_line_offset' = 0
    BY <1>3 DEF EndLine, NextOffset
  <2>3. text \in ends' /\ \A i \in ends' : text <= i
    BY <1>3, <2>2 DEF EndLine, LineInv, FirstNul
  <2> QED BY <2>1, <2>2, <2>3 DEF LineInv, LineSeen
<1>9. CASE Search
  <2>1. cut' \in BOOLEAN
    <3>1. cut \in BOOLEAN
      OBVIOUS
    <3> QED
      BY <1>9, <3>1, Zenon DEF Search, NewLine, line
  <2>2. TypeOK'
    BY <1>9, <2>1 DEF Search, NewLine
  <2>3. RoomInv' /\ CopyInv'
    BY <1>9 DEF Search
  <2>4. CASE NewLine /\ pc' = "read"
    BY <1>9, <2>2, <2>4, <2>3 DEF Search, NewLine, LineInv, LineSeen
  <2>5. CASE UNCHANGED line /\ pc' = "keep"
    BY <1>0, <1>9, <2>2, <2>5, <2>3 DEF Search
  <2> QED BY <1>9, <2>4, <2>5 DEF Search
<1>4. CASE Keep
  <2>1. TypeOK' /\ RoomInv'
    BY <1>4 DEF Keep
  <2>2. CopyInv'
    BY <1>4 DEF Keep
  <2>3. LineInv'
    BY <1>0, <1>4 DEF Keep
  <2> QED BY <2>1, <2>2, <2>3
<1>5. CASE Copy
  <2>1. filled' = heap' /\ heap' = heap
    <3> HIDE DEF IInv, TypeOK, RoomInv, LineInv, CopyInv
    <3>1. CopyInv /\ pc = "copy"
      BY <1>5 DEF Copy, IInv
    <3>2. heap = {last_tty_read, tmp} \ {Null} /\ filled = {tmp} \ {Null}
          /\ last_tty_read # Null
      BY <3>1 DEF CopyInv
    <3> QED BY <1>5, <3>2 DEF Copy
  <2>2. TypeOK' /\ RoomInv'
    BY <1>5 DEF Copy
  <2>3. LineInv'
    BY <1>0, <1>5 DEF Copy
  <2> QED BY <1>5, <2>1, <2>2, <2>3 DEF Copy
<1>6. CASE Drop
  <2>1. heap \ {tmp} = {last_tty_read} \ {Null}
    <3> HIDE DEF IInv, TypeOK, RoomInv, LineInv, CopyInv
    <3>1. CopyInv /\ pc = "drop"
      BY <1>6 DEF Drop, IInv
    <3>2. heap = {last_tty_read, tmp} \ {Null} /\ (tmp = last_tty_read => tmp = Null)
      BY <3>1 DEF CopyInv
    <3> QED BY <3>2
  <2>2. heap' = {last_tty_read} \ {Null} /\ filled' = heap'
    BY <1>6, <2>1 DEF Drop, Dropped
  <2>3. TypeOK' /\ RoomInv'
    BY <1>6 DEF Drop, Dropped, NewLine
  <2>4. LineInv'
    BY <1>6 DEF Drop, NewLine, LineInv, LineSeen
  <2> QED BY <1>6, <2>2, <2>3, <2>4 DEF Drop
<1>7. CASE Delete
  <2>1. heap' = {} /\ filled' = {}
    BY <1>7 DEF Delete
  <2>2. TypeOK' /\ RoomInv' /\ LineInv'
    BY <1>7 DEF Delete, LineInv, LineSeen
  <2> QED BY <1>7, <2>1, <2>2 DEF Delete
<1>8. CASE UNCHANGED vars
  BY <1>8 DEF vars, LineInv, LineSeen, FirstNul
<1> QED BY <1>1, <1>2, <1>3, <1>4, <1>5, <1>6, <1>7, <1>8, <1>9 DEF Next, Handle

(* The three properties of the handler are parts of the invariant.          *)
LEMMA IInvImplies == IInv => InBounds /\ LineSeen /\ OneCopyKept
BY DEF IInv, RoomInv, LineInv, CopyInv, InBounds, OneCopyKept

(* session_handler_fn never writes past handler_buf: the test with the size *)
(* of a pointer asks for room too often, never too late.                    *)
THEOREM HandlerInBounds == Spec => []InBounds
BY InitIInv, NextIInv, IInvImplies, PTL DEF Spec

(* The string searched, echoed and kept is the current line up to its first *)
(* NUL, for every sequence of lines that was in the buffer before it.       *)
THEOREM HandlerSeesItsLine == Spec => []LineSeen
BY InitIInv, NextIInv, IInvImplies, PTL DEF Spec

(* No copy of a line is leaked or freed twice, even when malloc fails.      *)
THEOREM HandlerKeepsOneCopy == Spec => []OneCopyKept
BY InitIInv, NextIInv, IInvImplies, PTL DEF Spec
=============================================================================
