------------------------------- MODULE Shell -------------------------------
(***************************************************************************)
(* The user program: shell.c with its line editor, cat.c, and the stubs of *)
(* user.c it calls the kernel with.  The line buffer is an array on main's *)
(* stack that is never cleared: a line stands in it up to its NUL, with    *)
(* what earlier lines left behind it.  Keys are Enter, Backspace, Delete   *)
(* and printable characters.  The files are those of the kernel (Fs): here *)
(* an open, a read or a close may end in any way it can end there.         *)
(*                                                                         *)
(* The screen is the terminal's current row.  A row is as long as need be. *)
(***************************************************************************)
EXTENDS Text

CONSTANTS
    BUF_SIZE,   \* sizeof(line), 128
    CAT_SIZE,   \* sizeof(buf) in cat, 64
    Printable,  \* the codes of the printable keys
    hello, exit, kinako, cat,   \* the four commands, each a string with its NUL
    Texts       \* what files may hold, read by cat

BS == 8
LF == 10
CR == 13
DEL == 127
BLANK == 32

Commands == <<hello, exit, kinako, cat>>

ASSUME ShellAssumption ==
    /\ BUF_SIZE \in Nat \ {0, 1}
    /\ CAT_SIZE \in Nat \ {0}
    /\ Printable \subseteq BLANK .. DEL - 1
    /\ \A k \in 1 .. 4 : Commands[k] \in Seq(Printable \union {NUL}) /\ NUL \in ToSet(Commands[k])
    /\ \A t \in Texts : t \in Seq(0 .. 255) /\ Len(t) < CAT_SIZE

VARIABLES
    place,      \* where the program is: prompt, readline, dispatch, cat_read, cat_close or exit
    line,       \* the array
    len,        \* readline's count
    screen,     \* the row: its characters and the column of the cursor
    fds,        \* descriptors open(2) gave out and close has not taken back
    typed,      \* history: the characters of the line that editing has left
    ran         \* history: what the last line was taken for

shellVars == <<place, line, len, screen, fds, typed, ran>>

-----------------------------------------------------------------------------
(* putchar and puts.                                                        *)

\* What a terminal makes of a character.
Put(row, ch) ==
    IF ch = LF THEN [text |-> <<>>, col |-> 0]
    ELSE IF ch = NUL THEN row
    ELSE IF ch = BS THEN [row EXCEPT !.col = IF @ = 0 THEN 0 ELSE @ - 1]
    ELSE [text |-> IF row.col < Len(row.text) THEN ReplaceAt(row.text, row.col + 1, ch)
                   ELSE Append(row.text, ch),
          col  |-> row.col + 1]

puts(row, s) ==
    LET after[k \in 0 .. Len(String(s))] == IF k = 0 THEN row ELSE Put(after[k - 1], s[k])
    IN  after[Len(String(s))]

\* Any message that ends its line.
Message == <<LF, NUL>>

Prompt == <<62, BLANK, NUL>>

ShellInit ==
    /\ place = "prompt"
    /\ \E stale \in Printable : line = [i \in 1 .. BUF_SIZE |-> stale]     \* never set
    /\ len = 0
    /\ screen = [text |-> <<>>, col |-> 0]
    /\ fds = {}
    /\ typed = <<>>
    /\ ran = "nothing"

-----------------------------------------------------------------------------
(* readline                                                                 *)

\* The head of main's loop and of readline.
prompt ==
    /\ place = "prompt"
    /\ place' = "readline"
    /\ screen' = puts(screen, Prompt)
    /\ len' = 0
    /\ typed' = <<>>
    /\ UNCHANGED <<line, fds, ran>>

\* Mutant of Terminated: the NUL is left to the compiler's zeros.
Terminated_not == line

\* buf[len] = '\0'
Terminated == [line EXCEPT ![len + 1] = NUL]

\* Enter.  main goes back to the prompt if the line is empty.
key_enter ==
    /\ place = "readline"
    /\ screen' = Put(screen, LF)
    /\ line' = Terminated
    /\ place' = IF len = 0 THEN "prompt" ELSE "dispatch"
    /\ UNCHANGED <<len, fds, typed, ran>>

\* Mutant of Rubout: the cursor stays behind the blank.
Rubout_two == <<BS, BLANK, NUL>>

Rubout == <<BS, BLANK, BS, NUL>>

\* Backspace and Delete; with an empty line, nothing.
key_backspace ==
    /\ place = "readline"
    /\ len > 0
    /\ len' = len - 1
    /\ screen' = puts(screen, Rubout)
    /\ typed' = SubSeq(typed, 1, Len(typed) - 1)
    /\ UNCHANGED <<place, line, fds, ran>>

\* Mutant of Room: the place of the NUL is given away.
Room_last == len < BUF_SIZE

Room == len < BUF_SIZE - 1

\* Any other key is stored and echoed while there is room, else ignored.
key_char ==
    /\ place = "readline"
    /\ Room
    /\ \E ch \in Printable :
         /\ line' = [line EXCEPT ![len + 1] = ch]
         /\ screen' = Put(screen, ch)
         /\ typed' = Append(typed, ch)
    /\ len' = len + 1
    /\ UNCHANGED <<place, fds, ran>>

-----------------------------------------------------------------------------
(* main's dispatch, and cat                                                 *)

Is(command) == strcmp(line, command) = 0

Names == <<"hello", "exit", "kinako", "cat">>

Match == {k \in DOMAIN Commands : Is(Commands[k])}

\* The chain of else-ifs takes the first match.
Command == IF Match = {} THEN "unknown" ELSE Names[CHOOSE k \in Match : \A j \in Match : k <= j]

\* Commands that put out a line of text; exit breaks the loop, and start calls exit().
dispatch ==
    /\ place = "dispatch"
    /\ Command # "cat"
    /\ ran' = Command
    /\ place' = IF Command = "exit" THEN "exit" ELSE "prompt"
    /\ screen' = puts(IF Command = "unknown" THEN puts(screen, line) ELSE screen, Message)
    /\ UNCHANGED <<line, len, fds, typed>>

\* cat: open fails, or gives a descriptor.
cat_open ==
    /\ place = "dispatch"
    /\ Command = "cat"
    /\ ran' = Command
    /\ \/ /\ place' = "prompt"
          /\ screen' = puts(screen, Message)
          /\ UNCHANGED fds
       \/ /\ place' = "cat_read"
          /\ \E fd \in {0, 1} \ fds : fds' = fds \union {fd}
          /\ UNCHANGED screen
    /\ UNCHANGED <<line, len, typed>>

\* Mutant of AfterRead: a failed read returns at once.
AfterRead_returns(failed) == IF failed THEN "prompt" ELSE "cat_close"

\* Both ways on from the read lead to close.
AfterRead(failed) == "cat_close"

\* read fails, or fills up to CAT_SIZE - 1 bytes, which are ended and put out.
cat_read ==
    /\ place = "cat_read"
    /\ \E failed \in BOOLEAN :
         /\ place' = AfterRead(failed)
         /\ IF failed THEN screen' = puts(screen, Message)
            ELSE \E text \in Texts : screen' = puts(screen, Append(text, NUL))
    /\ UNCHANGED <<line, len, fds, typed, ran>>

cat_close ==
    /\ place = "cat_close"
    /\ place' = "prompt"
    /\ \E fd \in fds : fds' = fds \ {fd}
    /\ UNCHANGED <<line, len, screen, typed, ran>>

exited ==
    /\ place = "exit"
    /\ UNCHANGED shellVars

ShellNext ==
    \/ prompt
    \/ key_enter
    \/ key_backspace
    \/ key_char
    \/ dispatch
    \/ cat_open
    \/ cat_read
    \/ cat_close
    \/ exited

-----------------------------------------------------------------------------
(* Properties                                                               *)

ShellTypeOK ==
    /\ place \in {"prompt", "readline", "dispatch", "cat_read", "cat_close", "exit"}
    /\ line \in [1 .. BUF_SIZE -> Printable \union {NUL}]
    /\ len \in 0 .. BUF_SIZE - 1
    /\ fds \subseteq {0, 1}

\* The command that runs is the one that was typed: editing, a line that was cut
\* at the end of the buffer, and what longer lines before it left in the array do
\* not change what strcmp finds.
RunsWhatWasTyped ==
    [][ran' # ran => \/ \E k \in 1 .. 4 : ran' = Names[k] /\ typed = String(Commands[k])
                     \/ ran' = "unknown" /\ \A k \in 1 .. 4 : typed # String(Commands[k])]_shellVars

\* While a line is edited the row shows it, behind the prompt and with the cursor at its
\* end, whatever was typed and erased, and though a file cat put out may end within the
\* row.  (Texts that move the cursor back could leave characters behind it.)
ScreenShowsLine ==
    place = "readline" =>
      LET shown == SubSeq(screen.text, 1, screen.col)
          rest  == SubSeq(screen.text, screen.col + 1, Len(screen.text))
      IN  /\ IsSuffix(String(Prompt) \o typed, shown)
          /\ \A k \in DOMAIN rest : rest[k] = BLANK

\* cat gives back the descriptor it opened on each of its ways out; the kernel
\* would not, and the shell goes on for ever with sixteen of them.
CatCloses == place = "prompt" => fds = {}
=============================================================================
