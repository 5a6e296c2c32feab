------------------------------- MODULE Screen ------------------------------
(***************************************************************************)
(* Text on the display, devices/vga.c.  vga_putc() runs with interrupts    *)
(* off, so each call is one step.  A character is one of Char or a control *)
(* character, called by its name; attributes are left out.  The display keeps   *)
(* the cursor as one number in two registers, from which the first call    *)
(* reads where the boot loader has left it.                                *)
(***************************************************************************)
EXTENDS Integers

CONSTANTS ColCnt, RowCnt,
          TabSize,      \* 8
          Byte,         \* values of a register (256)
          Char, Space

ScreenAssumption ==
  /\ ColCnt \in Nat \ {0} /\ RowCnt \in Nat \ {0} /\ TabSize \in Nat \ {0}
  /\ Byte \in Nat \ {0} /\ ColCnt * RowCnt <= Byte * Byte

VARIABLES fb,           \* the characters of each row
          cx, cy,       \* the cursor
          inited,
          high, low,    \* the cursor registers of the display
          last          \* the character written last

vars == <<fb, cx, cy, inited, high, low, last>>

Row   == 0 .. RowCnt - 1
Col   == 0 .. ColCnt - 1
Blank == [x \in Col |-> Space]
Control == {"newline", "formfeed", "backspace", "return", "tab"}

FindCursor == [x |-> (high * Byte + low) % ColCnt, y |-> (high * Byte + low) \div ColCnt]

\* clear_row (RowCnt - 1) after the memmove().
Scrolled(f) == [y \in Row |-> IF y = RowCnt - 1 THEN Blank ELSE f[y + 1]]

\* newline(): text and cursor.
Newline(f, y) ==
  IF y + 1 >= RowCnt THEN [fb |-> Scrolled(f), x |-> 0, y |-> RowCnt - 1]
                     ELSE [fb |-> f, x |-> 0, y |-> y + 1]


\* The switch of vga_putc().
After(f, x, y, c) ==
  LET tab   == ((x + TabSize) \div TabSize) * TabSize
      typed == [f EXCEPT ![y][x] = c]
  IN  CASE c = "newline" -> Newline(f, y)
        [] c = "formfeed" -> [fb |-> [r \in Row |-> Blank], x |-> 0, y |-> 0]
        [] c = "backspace" -> [fb |-> f, x |-> IF x > 0 THEN x - 1 ELSE x, y |-> y]
        [] c = "return" -> [fb |-> f, x |-> 0, y |-> y]
        [] c = "tab" -> IF tab >= ColCnt THEN Newline(f, y) ELSE [fb |-> f, x |-> tab, y |-> y]
        [] OTHER    -> IF x + 1 >= ColCnt THEN Newline(typed, y)
                                          ELSE [fb |-> typed, x |-> x + 1, y |-> y]

\* move_cursor() writes the two bytes of cp to the two registers.
MoveCursor(x, y) ==
  LET cp == x + ColCnt * y
  IN  high' = (cp \div Byte) % Byte /\ low' = cp % Byte

\* vga_putc(), with init() before the first character.
VgaPutc(c) ==
  LET from == IF inited THEN [x |-> cx, y |-> cy] ELSE FindCursor
      to   == After(fb, from.x, from.y, c)
  IN  /\ fb' = to.fb /\ cx' = to.x /\ cy' = to.y
      /\ MoveCursor(to.x, to.y)
      /\ inited' = TRUE
      /\ last' = c

Init ==
  /\ fb \in [Row -> {Blank}]
  /\ cx = 0 /\ cy = 0 /\ inited = FALSE /\ last = Space
  /\ \E x \in Col, y \in Row :
       high = (x + ColCnt * y) \div Byte /\ low = (x + ColCnt * y) % Byte

Next == \E c \in Control \cup Char : VgaPutc(c)

-----------------------------------------------------------------------------
\* Where the next character goes, and what is seen where.
Here  == IF inited THEN [x |-> cx, y |-> cy] ELSE FindCursor

\* A step either clears the screen or keeps every character in its place but
\* the one it writes, all of them one row higher if the line went on after the last
\* row; it leaves the cursor on the screen, and the display's cursor with it.
OperationRight ==
  LET c  == last'
      up == IF Here.y = RowCnt - 1 /\ cx' = 0 /\ c \notin {"backspace", "return", "formfeed"} THEN 1 ELSE 0
  IN  /\ cx' \in Col /\ cy' \in Row
      /\ FindCursor' = [x |-> cx', y |-> cy']
      /\ IF c = "formfeed" THEN \A y \in Row : fb'[y] = Blank
         ELSE \A x \in Col, y \in Row :
                fb'[y][x] = IF y + up > RowCnt - 1 THEN Space
                            ELSE IF c \in Char /\ x = Here.x /\ y + up = Here.y THEN c
                            ELSE fb[y + up][x]
      /\ c \in Char \cup {"newline", "tab"} =>
           (cy' + up) * ColCnt + cx' > Here.y * ColCnt + Here.x
      /\ c \in Char => (cy' + up) * ColCnt + cx' = Here.y * ColCnt + Here.x + 1
=============================================================================
