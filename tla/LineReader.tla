----------------------------- MODULE LineReader -----------------------------
(***************************************************************************)
(* The memory of the handler thread (jni/su_srv.c, session_handler_fn):    *)
(* handler_buf, which grows while a line is read byte by byte, and the     *)
(* copy of the last line of output in last_tty_read. Bytes are abstracted  *)
(* to line feeds, NULs and others. strstr, strlen and strncpy stop at the  *)
(* first NUL in the buffer, which output may also contain: of such a line  *)
(* they see what comes before it, and its tag may be hidden.               *)
(***************************************************************************)
EXTENDS Naturals

CONSTANTS
  POINTER_SIZE,  (* size of a C pointer, which the test for room uses      *)
  MaxLine,       (* bound: the longest line that is read                    *)
  Blocks,        (* addresses malloc may return for a copy of a line        *)
  OutOfMemory,   (* whether malloc and realloc may fail                     *)
  Null

BUF_INITIAL_SIZE == 32
BUF_INC == 32

ASSUME LineReaderAssumption ==
  /\ POINTER_SIZE \in 2..BUF_INITIAL_SIZE /\ MaxLine \in Nat
  /\ OutOfMemory \in BOOLEAN /\ Null \notin Blocks

VARIABLES
  pc,               (* "read", "lf" a line is complete, "search" it for the  *)
                    (* tag, "keep" it as output, "copy" it, "drop" the       *)
                    (* previous copy, "deleted", and "fault"                 *)
  curr_line_offset,
  size,             (* bytes allocated for handler_buf                       *)
  written,          (* the last index written in handler_buf                 *)
  ends,             (* where handler_buf holds a NUL; memory that was never  *)
                    (* written is taken to hold none: the worst it can hold  *)
  text,             (* history: bytes of this line, those before its NUL     *)
  cut,              (* history: a NUL was read in this line                  *)
  last_tty_read,
  tmp,              (* the previous last_tty_read                            *)
  heap,             (* the blocks that are allocated                         *)
  filled            (* those of them that hold a line                        *)

memory == <<curr_line_offset, size, written, ends>>
line == <<text, cut>>
buffer == <<memory, line>>
copy == <<last_tty_read, tmp, heap, filled>>
vars == <<pc, buffer, copy>>

Init ==
  /\ pc = "read" /\ curr_line_offset = 0 /\ written = 0 /\ size = BUF_INITIAL_SIZE
  /\ ends = {} /\ text = 0 /\ cut = FALSE
  /\ last_tty_read = Null /\ tmp = Null /\ heap = {} /\ filled = {}

(* The size the test for room gives the buffer: it compares the offset with *)
(* the size of the pointer, and so reallocates for every further byte.      *)
NeedsRoom == curr_line_offset > POINTER_SIZE - 2
ExactRoom == IF NeedsRoom THEN curr_line_offset + 1 ELSE size  (* none for NUL *)
Room == IF NeedsRoom THEN curr_line_offset + BUF_INC ELSE size

(* One byte is read and stored.                                             *)
Read ==
  /\ pc = "read" /\ curr_line_offset < MaxLine
  /\ size' = Room
  /\ written' = curr_line_offset
  /\ curr_line_offset' = curr_line_offset + 1
  /\ \E byte \in {"lf", "nul", "other"} :
       /\ pc' = IF byte = "lf" THEN "lf" ELSE "read"
       /\ ends' = IF byte = "nul" THEN ends \cup {curr_line_offset}
                                  ELSE ends \ {curr_line_offset}
       /\ cut' = (cut \/ byte = "nul")
       /\ text' = IF cut' THEN text ELSE text + 1
  /\ UNCHANGED copy

(* realloc fails, and its null pointer is written through.                  *)
NoRoom ==
  /\ OutOfMemory /\ NeedsRoom
  /\ pc = "read" /\ curr_line_offset < MaxLine
  /\ pc' = "fault" /\ UNCHANGED <<buffer, copy>>

(* The line is terminated, and the next one overwrites it from the start.   *)
KeepOffset == curr_line_offset                  (* the offset is not reset *)
NextOffset == 0
EndLine ==
  /\ pc = "lf" /\ pc' = "search"
  /\ written' = curr_line_offset /\ ends' = ends \cup {curr_line_offset}
  /\ curr_line_offset' = NextOffset
  /\ UNCHANGED <<size, line, copy>>

(* A line with the tag is a result, others are output.                      *)
NewLine == text' = 0 /\ cut' = FALSE
Search ==
  /\ pc = "search"
  /\ \/ pc' = "read" /\ NewLine
     \/ pc' = "keep" /\ UNCHANGED line
  /\ UNCHANGED <<memory, copy>>

(* last_tty_read points to the new block before the line is in it.          *)
Keep ==
  /\ pc = "keep"
  /\ tmp' = last_tty_read
  /\ \/ \E b \in Blocks \ heap :
          last_tty_read' = b /\ heap' = heap \cup {b} /\ pc' = "copy"
     \/ OutOfMemory /\ last_tty_read' = Null /\ UNCHANGED heap /\ pc' = "drop"
  /\ UNCHANGED <<buffer, filled>>

Copy ==
  /\ pc = "copy" /\ pc' = "drop" /\ filled' = filled \cup {last_tty_read}
  /\ UNCHANGED <<buffer, last_tty_read, tmp, heap>>

(* The copy before this one is freed only now: both exist for a moment.     *)
DropNew == last_tty_read
DropIfReplaced == IF last_tty_read = Null THEN Null ELSE tmp
Dropped == tmp
Drop ==
  /\ pc = "drop" /\ pc' = "read" /\ NewLine
  /\ heap' = heap \ {Dropped} /\ filled' = filled \ {Dropped}
  /\ UNCHANGED <<memory, last_tty_read, tmp>>

(* End of file; the session is deleted once the handler has left its loop.  *)
Delete ==
  /\ pc = "read" /\ pc' = "deleted"
  /\ heap' = heap \ {last_tty_read} /\ filled' = filled \ {last_tty_read}
  /\ UNCHANGED <<buffer, last_tty_read, tmp>>

Handle == Read \/ NoRoom \/ EndLine \/ Search \/ Keep \/ Copy \/ Drop
Next == Handle \/ Delete
Spec == Init /\ [][Next]_vars
-----------------------------------------------------------------------------
(* Every variable keeps its type.                                           *)
TypeOK ==
  /\ pc \in {"read", "lf", "search", "keep", "copy", "drop", "deleted", "fault"}
  /\ curr_line_offset \in Nat /\ size \in Nat /\ written \in Nat
  /\ ends \subseteq Nat /\ text \in Nat /\ cut \in BOOLEAN
  /\ last_tty_read \in Blocks \cup {Null} /\ tmp \in Blocks \cup {Null}
  /\ heap \subseteq Blocks /\ filled \subseteq Blocks

(* session_handler_fn writes each byte of a line, and the NUL after it,     *)
(* inside handler_buf, whatever lengths the lines before it had.            *)
InBounds == written < size

(* The C string that is searched for the tag, echoed and kept is this line  *)
(* up to its first NUL or its end: although nothing clears the buffer, the  *)
(* bytes and NULs that longer and shorter lines before it left there are    *)
(* never taken for a part or for the end of it.                             *)
LineSeen ==
  pc \in {"search", "keep", "copy"} => text \in ends /\ \A i \in ends : text <= i

(* Between two lines the only copy allocated is the one last_tty_read       *)
(* points to, and it holds a line; there is none once the session is        *)
(* deleted, even if malloc failed.                                          *)
OneCopyKept ==
  /\ pc = "read" => heap = {last_tty_read} \ {Null} /\ filled = heap
  /\ pc = "deleted" => heap = {}
=============================================================================
