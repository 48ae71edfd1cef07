------------------------------ MODULE Keyboard ------------------------------
(***************************************************************************)
(* From a key to a command: the scan codes of a PS/2 keyboard, the driver  *)
(* arch/x86_64/dev/ps2_keyboard.c that turns them into key codes, the      *)
(* signal each key code is sent with (one FIFO, see Signals), and the      *)
(* shell, user/shell/, whose signal handler writes characters into stdin   *)
(* while its main loop reads them.  One key of every kind of scan code.    *)
(***************************************************************************)
EXTENDS Integers, Sequences, SequencesExt

CONSTANTS
    Keys,        \* keys in use, of those in Codes
    MaxTyped     \* bound: presses and releases

VARIABLE kbd
    \* typed  what was pressed and released       wire   bytes of the controller
    \* state  state of the driver                 queue  signals for the shell
    \* shift  static of keycode2ascii             stdin  characters in the pipe
    \* buf    what the main loop has read         at     its index
    \* cmd    command so far                      done   characters seen by the loop
    \* lost   the buffer was overwritten while it was being read

Down(k) == [key |-> k, up |-> FALSE]
Up(k)   == [key |-> k, up |-> TRUE]

\* Scan code set 1: what the keyboard sends.
Codes ==
    [KEY_A         |-> <<<<"1e">>, <<"9e">>>>,
     KEY_ENTER     |-> <<<<"1c">>, <<"9c">>>>,
     KEY_LEFTSHIFT |-> <<<<"2a">>, <<"aa">>>>,
     KEY_RIGHT     |-> <<<<"e0", "4d">>, <<"e0", "cd">>>>,
     KEY_PRTSC     |-> <<<<"e0", "2a", "e0", "37">>, <<"e0", "b7", "e0", "aa">>>>,
     KEY_PAUSE     |-> <<<<"e1", "1d", "45", "e1", "9d", "c5">>, <<>>>>]

Init ==
    kbd = [typed |-> <<>>, wire |-> <<>>, state |-> "NORMAL", queue |-> <<>>,
           shift |-> FALSE, stdin |-> <<>>, buf |-> <<>>, at |-> 0, cmd |-> <<>>,
           done |-> <<>>, lost |-> FALSE]

\* Keys are pressed and released one at a time, shift before and after others.
Held(k) == \E i \in DOMAIN kbd.typed :
             /\ kbd.typed[i] = Down(k)
             /\ \A j \in i + 1 .. Len(kbd.typed) : kbd.typed[j] # Up(k)
Type(e) ==
    /\ Len(kbd.typed) < MaxTyped
    /\ e.up => Held(e.key)
    /\ ~e.up => ~Held(e.key)
    /\ kbd' = [kbd EXCEPT !.typed = IF e = Up("KEY_PAUSE") THEN @ ELSE Append(@, e),
                          !.wire = @ \o Codes[e.key][IF e.up THEN 2 ELSE 1]]

-----------------------------------------------------------------------------
(* The driver.                                                             *)

\* The tables for one byte, and for a byte behind e0.
Pair(down, up, k) == (down :> Down(k)) @@ (up :> Up(k))
normal_lookup == Pair("1e", "9e", "KEY_A") @@ Pair("1c", "9c", "KEY_ENTER")
                   @@ Pair("2a", "aa", "KEY_LEFTSHIFT")
e0_lookup     == Pair("4d", "cd", "KEY_RIGHT")
ends          == ("PRTSC_DOWN_3" :> <<"37", Down("KEY_PRTSC")>>)
                   @@ ("PRTSC_UP_3" :> <<"aa", Up("KEY_PRTSC")>>)
                   @@ ("PAUSE_5"    :> <<"c5", Down("KEY_PAUSE")>>)

\* The state a byte leads to; any other byte leads back to NORMAL.
edges ==
    [NORMAL       |-> ("e0" :> "E0") @@ ("e1" :> "PAUSE_1"),
     E0           |-> ("2a" :> "PRTSC_DOWN_2") @@ ("b7" :> "PRTSC_UP_2"),
     PRTSC_DOWN_2 |-> ("e0" :> "PRTSC_DOWN_3"),
     PRTSC_UP_2   |-> ("e0" :> "PRTSC_UP_3"),
     PAUSE_1      |-> ("1d" :> "PAUSE_2"),
     PAUSE_2      |-> ("45" :> "PAUSE_3"),
     PAUSE_3      |-> ("e1" :> "PAUSE_4"),
     PAUSE_4      |-> ("9d" :> "PAUSE_5")]

send_keycode(s, e) == [s EXCEPT !.queue = Append(@, e)]
digest_scan_codeKeepsE0(s, b) ==
    LET from == s.state
        to   == IF from \in DOMAIN edges /\ b \in DOMAIN edges[from] THEN edges[from][b]
                ELSE IF from = "E0" THEN "E0" ELSE "NORMAL"
        t    == [s EXCEPT !.state = to]
    IN  CASE from = "NORMAL" /\ b \in DOMAIN normal_lookup -> send_keycode(t, normal_lookup[b])
          [] from = "E0" /\ b \in DOMAIN e0_lookup         -> send_keycode(t, e0_lookup[b])
          [] from \in DOMAIN ends /\ ends[from][1] = b     -> send_keycode(t, ends[from][2])
          [] OTHER                                         -> t
digest_scan_code(s, b) ==
    LET from == s.state
        to   == IF from \in DOMAIN edges /\ b \in DOMAIN edges[from] THEN edges[from][b]
                ELSE "NORMAL"
        t    == [s EXCEPT !.state = to]
    IN  CASE from = "NORMAL" /\ b \in DOMAIN normal_lookup -> send_keycode(t, normal_lookup[b])
          [] from = "E0" /\ b \in DOMAIN e0_lookup         -> send_keycode(t, e0_lookup[b])
          [] from \in DOMAIN ends /\ ends[from][1] = b     -> send_keycode(t, ends[from][2])
          [] OTHER                                         -> t

\* An interrupt reads what has arrived, which may end within a sequence.
ps2kbd_int_handler(n) ==
    /\ n \in 1 .. Len(kbd.wire)
    /\ kbd' = FoldLeft(digest_scan_code, [kbd EXCEPT !.wire = SubSeq(@, n + 1, Len(@))],
                       SubSeq(kbd.wire, 1, n))

-----------------------------------------------------------------------------
(* The shell.                                                              *)

table ==
    [KEY_A     |-> <<"a", "A">>,
     KEY_ENTER |-> <<"\n", "\n">>]
\* The character of a key code, or none, and the new shift.
keycode2ascii(shift, e) ==
    LET now == IF e.key = "KEY_LEFTSHIFT" THEN ~e.up ELSE shift
    IN  [shift |-> now,
         char  |-> IF ~e.up /\ e.key \in DOMAIN table
                     THEN <<table[e.key][IF now THEN 2 ELSE 1]>> ELSE <<>>]

\* on_signal runs whenever the shell is switched in.
on_signal ==
    /\ kbd.queue # <<>>
    /\ LET r == keycode2ascii(kbd.shift, Head(kbd.queue))
       IN  kbd' = [kbd EXCEPT !.queue = Tail(@), !.shift = r.shift, !.stdin = @ \o r.char]

\* main reads what is there and looks at one character after the other.  parse_cmd
\* and promote use the same buffer, also when it has more to look at.
main_read ==
    /\ ~kbd.lost /\ kbd.at = Len(kbd.buf) /\ kbd.stdin # <<>>
    /\ kbd' = [kbd EXCEPT !.buf = kbd.stdin, !.at = 0, !.stdin = <<>>]
main_char ==
    /\ ~kbd.lost /\ kbd.at < Len(kbd.buf)
    /\ LET c == kbd.buf[kbd.at + 1]
       IN  kbd' = [kbd EXCEPT !.at = @ + 1, !.done = Append(@, c),
                              !.cmd = IF c = "\n" THEN <<>> ELSE Append(@, c),
                              !.lost = c = "\n" /\ kbd.at + 1 < Len(kbd.buf)]

Next ==
    \/ \E k \in Keys : Type(Down(k)) \/ Type(Up(k))
    \/ \E n \in 1 .. Len(kbd.wire) : ps2kbd_int_handler(n)
    \/ on_signal \/ main_read \/ main_char

-----------------------------------------------------------------------------
\* What was typed, as characters.
Meant(events) ==
    LET Step(t, e) == LET r == keycode2ascii(t.shift, e)
                      IN  [shift |-> r.shift, text |-> t.text \o r.char]
    IN  FoldLeft(Step, [shift |-> FALSE, text |-> <<>>], events)
RECURSIVE Pending(_)
Pending(s) == IF s.wire = <<>> THEN s.queue
              ELSE Pending(digest_scan_code([s EXCEPT !.wire = Tail(@)], Head(s.wire)))

\* However the bytes are split between interrupts and the signals come between the
\* characters the shell looks at, the characters it has looked at, those in its
\* buffer and in stdin, and those of the signals and bytes still on their way make
\* up what was typed, in order, and the command is what was typed since the last
\* line, until the buffer is overwritten while it is read (digest_scan_code,
\* keycode2ascii, main).
TypedIsRead ==
    ~kbd.lost =>
      LET rest == Pending(kbd)
          all  == Meant(kbd.typed).text
          late == Meant(<<Down("KEY_LEFTSHIFT")>> \o rest)
          text == (IF kbd.shift THEN late ELSE Meant(rest)).text
      IN  /\ all = kbd.done \o SubSeq(kbd.buf, kbd.at + 1, Len(kbd.buf)) \o kbd.stdin \o text
          /\ kbd.cmd = SubSeq(kbd.done, Len(kbd.done) - Len(kbd.cmd) + 1, Len(kbd.done))
=============================================================================
