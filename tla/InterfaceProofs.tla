--------------------------- MODULE InterfaceProofs ---------------------------
(***************************************************************************)
(* Proofs about the programs with buttons: the Windows client's dialog and *)
(* tool, for any number of clicks and whatever messages are lost on the    *)
(* way, and the Android application of the server, for any number of times *)
(* that its activity is opened.                                            *)
(*                                                                         *)
(* IdleHoldsNothing is not inductive only for its want of types: the tool  *)
(* has to be known for a record to see where a step leads it.  InStep      *)
(* speaks of the message the tool reads next; StepInv says of the whole    *)
(* stream that it is made of commands.  ButtonsTellSession speaks of the   *)
(* moments when nothing is under way; ButtonsInv says for every moment     *)
(* where the attach is that Connect was pressed for.                       *)
(*                                                                         *)
(* The application's AppInv follows a word from the program that sends it  *)
(* to the handler that acts on it, with the message that comes before it.  *)
(***************************************************************************)
EXTENDS UsbipTool, UsbipApp, SeqLemmas, TLAPS

ToolShape == tool = [at |-> tool.at, option |-> tool.option]

IdleInv == ToolShape /\ IdleHoldsNothing

\* Where the tool is after a step from a place where it holds nothing, to another one.
LEMMA NothingToNothing ==
  ASSUME IdleInv, NEW at, NEW option, tool' = [at |-> at, option |-> option],
         tool.at # "session", at # "session",
         plugged' => plugged,
         server' = server, tool.at # "plug"
  PROVE  IdleInv'
<1>1. ~plugged /\ ~plugged'
  BY DEF IdleInv, ToolShape, IdleHoldsNothing, At
<1>2. tool'.at = at /\ ToolShape'
  BY <1>1 DEF ToolShape
<1> QED
  BY <1>1, <1>2 DEF IdleInv, IdleHoldsNothing, At

\* The tool reads an option, an address, or an id.
LEMMA ReadsKeep ==
  ASSUME IdleInv, MainOption \/ MainAddress \/ MainId
  PROVE  IdleInv'
<1>1. /\ tool.at \in {"option", "address", "id"} /\ server' = server
      /\ tool = [at |-> tool.at, option |-> tool.option]
  BY DEF MainOption, MainAddress, MainId, At, uiVars, IdleInv, ToolShape
<1>2. CASE MainOption
  <2>1. plugged' = plugged
    BY <1>2 DEF MainOption, uiVars
  <2>2. CASE tool' = [tool EXCEPT !.at = "ended"]
    <3>1. tool' = [at |-> "ended", option |-> tool.option]
      BY <1>1, <2>2
    <3> QED
      BY <1>1, <2>1, <3>1, NothingToNothing
  <2>3. CASE tool' = [at |-> "address", option |-> msg]
    BY <1>1, <2>1, <2>3, NothingToNothing
  <2> QED
    BY <1>2, <2>2, <2>3, Zenon DEF MainOption
<1>3. CASE MainAddress
  <2> DEFINE at == CASE tool.option = "-a" -> "id"
                     [] tool.option = "-l" -> "list"
                     [] OTHER -> "option"
  <2>1. tool' = [tool EXCEPT !.at = at]
    BY <1>3, Zenon DEF MainAddress
  <2>2. at \in {"id", "list", "option"}
    <3>1. tool.option = "-a" => at = "id"
      OBVIOUS
    <3>2. tool.option = "-l" => at = "list"
      OBVIOUS
    <3>3. tool.option \notin {"-a", "-l"} => at = "option"
      OBVIOUS
    <3> HIDE DEF at
    <3> QED
      BY <3>1, <3>2, <3>3
  <2> HIDE DEF at
  <2>3. tool' = [at |-> at, option |-> tool.option]
    BY <1>1, <2>1
  <2>4. plugged' => plugged
    <3>1. IF tool.option = "-d" THEN DetachPort(3240) ELSE plugged' = plugged
      BY <1>3 DEF MainAddress
    <3>2. DetachPort(3240) => plugged' = FALSE \/ plugged' = plugged
      BY DEF DetachPort
    <3>3. plugged' = FALSE \/ plugged' = plugged
      BY <3>1, <3>2
    <3>4. CASE plugged' = FALSE
      BY <3>4
    <3>5. CASE plugged' = plugged
      BY <3>5, Zenon
    <3> QED
      BY <3>3, <3>4, <3>5, Zenon
  <2> QED
    BY <1>1, <2>2, <2>3, <2>4, NothingToNothing
<1>4. CASE MainId
  <2>1. PICK m : tool' = [at |-> "query", option |-> m]
    BY <1>4, Zenon DEF MainId
  <2>2. plugged' = plugged
    BY <1>4 DEF MainId, uiVars
  <2> QED
    BY <1>1, <2>1, <2>2, NothingToNothing
<1> QED
  BY <1>2, <1>3, <1>4

\* The commands: only an import takes the device, and a session has it plugged in.
LEMMA CommandsKeep ==
  ASSUME IdleInv,
         ShowExportedDevices \/ QueryInterface \/ QueryImport \/ ImportDevice \/ AttachReturns
  PROVE  IdleInv'
<1>1. CASE ShowExportedDevices \/ QueryInterface
  <2>1. /\ tool.at \in {"list", "query"} /\ plugged' = plugged /\ server' = server
        /\ \E at \in {"option", "import"} : tool' = [at |-> at, option |-> ""]
    BY <1>1 DEF ShowExportedDevices, QueryInterface, Fails, Back, At, uiVars
  <2> QED
    BY <2>1, NothingToNothing
<1>2. CASE QueryImport
  <2>1. /\ tool.at = "import" /\ plugged' = plugged
        /\ \/ tool' = [at |-> "option", option |-> ""] /\ server' = server
           \/ tool' = [at |-> "plug", option |-> ""]
    BY <1>2 DEF QueryImport, Fails, Back, At, uiVars
  <2>2. CASE tool' = [at |-> "option", option |-> ""] /\ server' = server
    BY <2>1, <2>2, NothingToNothing
  <2>3. CASE tool' = [at |-> "plug", option |-> ""]
    BY <2>1, <2>3 DEF IdleInv, ToolShape, IdleHoldsNothing, At
  <2> QED
    BY <2>1, <2>2, <2>3
<1>3. CASE ImportDevice
  <2>1. /\ tool.at = "plug"
        /\ \/ /\ tool' = [at |-> "option", option |-> ""]
              /\ server' = "forgotten" /\ plugged' = plugged
           \/ tool' = [at |-> "session", option |-> ""] /\ plugged' = TRUE
    BY <1>3 DEF ImportDevice, Fails, Back, At, uiVars
  <2>2. CASE /\ tool' = [at |-> "option", option |-> ""]
             /\ server' = "forgotten" /\ plugged' = plugged
    <3>1. ~plugged'
      BY <2>1, <2>2 DEF IdleInv, IdleHoldsNothing, At
    <3> QED
      BY <2>2, <3>1 DEF IdleInv, ToolShape, IdleHoldsNothing, At
  <2>3. CASE tool' = [at |-> "session", option |-> ""] /\ plugged' = TRUE
    BY <2>3 DEF IdleInv, ToolShape, IdleHoldsNothing, At
  <2> QED
    BY <2>1, <2>2, <2>3
<1>4. CASE AttachReturns
  <2>1. /\ tool' = [at |-> "option", option |-> ""]
        /\ server' = "free" /\ plugged' = FALSE
    BY <1>4 DEF AttachReturns, Back
  <2> QED
    BY <2>1 DEF IdleInv, ToolShape, IdleHoldsNothing, At
<1> QED
  BY <1>1, <1>2, <1>3, <1>4

\* Whatever the user presses and whatever messages are lost: outside of an attach and its
\* session no device is plugged in, and the tool has no connection that it knows of to
\* which the server gave the device.
THEOREM IdleToolHoldsNothing == ToolSpec => []IdleHoldsNothing
<1>1. ToolInit => IdleInv
  <2> SUFFICES ASSUME ToolInit PROVE IdleInv
    OBVIOUS
  <2>1. plugged = FALSE /\ tool = [at |-> "option", option |-> ""] /\ server = "free"
    BY DEF ToolInit
  <2> QED
    BY <2>1 DEF IdleInv, ToolShape, IdleHoldsNothing, At
<1>2. IdleInv /\ [ToolNext]_toolVars => IdleInv'
  <2> SUFFICES ASSUME IdleInv, [ToolNext]_toolVars PROVE IdleInv'
    OBVIOUS
  <2>1. CASE main \/ AttachReturns
    BY <2>1, ReadsKeep, CommandsKeep DEF main
  <2>2. CASE User \/ OnReceiveData \/ UNCHANGED toolVars
    <3>1. tool' = tool /\ server' = server /\ plugged' = plugged
      BY <2>2 DEF User, OnBnClickedList, OnCbnSelchangeBusid, OnBnClickedConnect,
                  OnBnClickedDisconnect, OnClose, OnReceiveData, toolVars
    <3> QED
      BY <3>1 DEF IdleInv, ToolShape, IdleHoldsNothing, At
  <2> QED
    BY <2>1, <2>2 DEF ToolNext
<1>3. IdleInv => IdleHoldsNothing
  BY DEF IdleInv
<1> QED
  BY <1>1, <1>2, <1>3, PTL DEF ToolSpec

(***************************************************************************)
(* The messages and the dialog's buttons.                                  *)
(***************************************************************************)

\* What the dialog sends before a command that names no address ("-d").
Openers == {"-l", "-a", "q"}
Ids == {"id", "no id"}
Messages == Options \cup Ids \cup {"address"}
News == {"list", "no connection", "failed", "attached"}

ToolTypes ==
  /\ tool = [at |-> tool.at, option |-> tool.option]
  /\ tool.at \in {"option", "address", "id", "list", "query", "import", "plug", "session",
                  "ended"}
  /\ buttons \in [list : BOOLEAN, connect : BOOLEAN, disconnect : BOOLEAN]
  /\ chosen \in BOOLEAN /\ closed \in BOOLEAN /\ skewed \in BOOLEAN /\ unseen \in BOOLEAN
  /\ to_tool \in Seq(Messages) /\ to_ui \in Seq(News)

\* What the message at i says of the ones after it.
GoesOn(s, i) ==
  /\ s[i] \in {"-l", "-a"} => i + 1 <= Len(s) /\ s[i + 1] = "address"
  /\ s[i] = "-a" => i + 2 <= Len(s) /\ s[i + 2] \in Ids
  /\ s[i] = "-l" /\ i + 2 <= Len(s) => s[i + 2] \in Openers
  /\ s[i] \in Ids /\ i + 1 <= Len(s) => s[i + 1] \in Openers
  /\ s[i] = "q" => i = Len(s)

\* s is the rest of the commands that the dialog has sent.
Commands(s) == \A i \in 1..Len(s) : GoesOn(s, i)

\* What the tool expects it to begin with.
Expected(s) ==
  /\ At("address") =>
       /\ tool.option \in {"-a", "-l"}
       /\ Len(s) >= 1 /\ s[1] = "address"
       /\ tool.option = "-a" => Len(s) >= 2 /\ s[2] \in Ids
       /\ tool.option = "-l" /\ Len(s) >= 2 => s[2] \in Openers
  /\ At("id") => Len(s) >= 1 /\ s[1] \in Ids /\ (Len(s) >= 2 => s[2] \in Openers)
  /\ tool.at \notin {"address", "id", "ended"} /\ Len(s) >= 1 => s[1] \in Openers

\* The last thing that the dialog sends is "q".
NoQuit(s) == \A i \in 1..Len(s) : s[i] # "q"

EndsWithQuit ==
  /\ ~closed => ~At("ended") /\ NoQuit(to_tool)
  /\ closed /\ ~At("ended") => Len(to_tool) >= 1 /\ to_tool[Len(to_tool)] = "q"

StepInv == ToolTypes /\ (~skewed => Commands(to_tool) /\ Expected(to_tool) /\ EndsWithQuit)

\* Commands without their first message.
LEMMA CommandsTail ==
  ASSUME NEW s, NEW t, IsTail(t, s), Commands(s)
  PROVE  Commands(t)
<1> SUFFICES ASSUME NEW i \in 1..Len(t) PROVE GoesOn(t, i)
  BY DEF Commands
<1>1. GoesOn(s, i + 1) /\ i + 1 \in 1..Len(s) /\ Len(s) \in Nat /\ Len(t) = Len(s) - 1
  BY DEF Commands, IsTail
<1>2. /\ t[i] = s[i + 1]
      /\ i + 1 <= Len(t) => t[i + 1] = s[(i + 1) + 1]
      /\ i + 2 <= Len(t) => t[i + 2] = s[(i + 1) + 2]
  BY <1>1 DEF IsTail
<1> QED
  BY <1>1, <1>2 DEF GoesOn

\* A command after those that were sent.
LEMMA CommandsConcat ==
  ASSUME NEW s, NEW c, NEW t, IsConcat(t, s, c), Commands(s), NoQuit(s), Commands(c),
         Len(c) >= 1, c[1] \in Openers
  PROVE  Commands(t)
<1> SUFFICES ASSUME NEW i \in 1..Len(t) PROVE GoesOn(t, i)
  BY DEF Commands
<1>1. /\ Len(s) \in Nat /\ Len(c) \in Nat /\ Len(t) = Len(s) + Len(c)
      /\ \A k \in 1..Len(s) : t[k] = s[k]
      /\ \A k \in 1..Len(c) : t[Len(s) + k] = c[k]
  BY DEF IsConcat
<1>2. t[Len(s) + 1] = c[1]
  BY <1>1
<1>3. CASE i \in 1..Len(s)
  <2>1. GoesOn(s, i) /\ s[i] # "q" /\ t[i] = s[i]
    BY <1>1, <1>3 DEF Commands, NoQuit
  <2>2. /\ i + 1 <= Len(s) => t[i + 1] = s[i + 1]
        /\ i + 2 <= Len(s) => t[i + 2] = s[i + 2]
        /\ i = Len(s) => t[i + 1] = c[1]
        /\ i + 1 = Len(s) => t[i + 2] = c[1]
    <3>1. i + 1 <= Len(s) => t[i + 1] = s[i + 1]
      BY <1>1, <1>3
    <3>2. i + 2 <= Len(s) => t[i + 2] = s[i + 2]
      BY <1>1, <1>3
    <3>3. i = Len(s) => i + 1 = Len(s) + 1
      OBVIOUS
    <3>4. i + 1 = Len(s) => i + 2 = Len(s) + 1
      BY <1>1
    <3> QED
      BY <3>1, <3>2, <3>3, <3>4, <1>2
  <2> QED
    BY <1>1, <1>3, <2>1, <2>2 DEF GoesOn
<1>4. CASE i \notin 1..Len(s)
  <2>1. PICK k \in 1..Len(c) : i = Len(s) + k
    BY <1>4 DEF IsConcat
  <2>2. GoesOn(c, k) /\ t[i] = c[k]
    BY <1>1, <2>1 DEF Commands
  <2>3. /\ k + 1 <= Len(c) => t[i + 1] = c[k + 1]
        /\ k + 2 <= Len(c) => t[i + 2] = c[k + 2]
    <3>1. k + 1 <= Len(c) => i + 1 = Len(s) + (k + 1) /\ k + 1 \in 1..Len(c)
      BY <1>1, <2>1
    <3>2. k + 2 <= Len(c) => i + 2 = Len(s) + (k + 2) /\ k + 2 \in 1..Len(c)
      BY <1>1, <2>1
    <3> QED
      BY <1>1, <3>1, <3>2
  <2>4. /\ i + 1 <= Len(t) <=> k + 1 <= Len(c)
        /\ i + 2 <= Len(t) <=> k + 2 <= Len(c)
        /\ i = Len(t) <=> k = Len(c)
    BY <1>1, <2>1
  <2> QED
    BY <2>2, <2>3, <2>4 DEF GoesOn
<1> QED
  BY <1>3, <1>4

\* It does not change what the tool is to read first.
LEMMA ExpectedConcat ==
  ASSUME NEW s, NEW c, NEW t, IsConcat(t, s, c), Expected(s), Len(c) >= 1, c[1] \in Openers
  PROVE  Expected(t)
<1>1. /\ Len(s) \in Nat /\ Len(c) \in Nat /\ Len(t) = Len(s) + Len(c)
      /\ 1 <= Len(s) => t[1] = s[1]
      /\ 2 <= Len(s) => t[2] = s[2]
  BY DEF IsConcat
<1>2. t[Len(s) + 1] = c[1]
  BY DEF IsConcat
<1>3. /\ Len(s) = 0 => t[1] = c[1]
      /\ Len(s) = 1 => t[2] = c[1]
  <2>1. ASSUME Len(s) = 0 PROVE t[1] = c[1]
    <3>1. Len(s) + 1 = 1
      BY <2>1
    <3> QED
      BY <1>2, <3>1
  <2>2. ASSUME Len(s) = 1 PROVE t[2] = c[1]
    <3>1. Len(s) + 1 = 2
      BY <2>2
    <3> QED
      BY <1>2, <3>1
  <2> QED
    BY <2>1, <2>2
<1>4. CASE Len(s) = 0
  BY <1>1, <1>3, <1>4 DEF Expected, At
<1>5. CASE Len(s) = 1
  BY <1>1, <1>3, <1>5 DEF Expected, At
<1>6. CASE Len(s) >= 2
  BY <1>1, <1>6 DEF Expected, At
<1>7. Len(s) = 0 \/ Len(s) = 1 \/ Len(s) >= 2
  <2>1. Len(s) \in Nat
    BY DEF IsConcat
  <2>2. \A n \in Nat : n = 0 \/ n = 1 \/ n >= 2
    OBVIOUS
  <2> QED
    BY <2>1, <2>2
<1> QED
  BY <1>4, <1>5, <1>6, <1>7

\* How often a message is on its way.
Has(s, m) == \E i \in 1..Len(s) : s[i] = m
AtMostOne(s, m) == \A i, j \in 1..Len(s) : s[i] = m /\ s[j] = m => i = j

\* Whether a message is in a stream, before and after its first is taken.
LEMMA TailHas ==
  ASSUME NEW s, NEW t, NEW m, IsTail(t, s)
  PROVE  /\ Has(t, m) => Has(s, m)
         /\ Has(s, m) /\ s[1] # m => Has(t, m)
         /\ AtMostOne(s, m) => AtMostOne(t, m)
         /\ AtMostOne(s, m) /\ s[1] = m => ~Has(t, m)
         /\ s[1] = m => Has(s, m)
<1>1. Len(s) \in Nat \ {0} /\ Len(t) = Len(s) - 1 /\ 1 \in 1..Len(s)
  BY DEF IsTail
<1>2. \A i \in 1..Len(t) : i + 1 \in 1..Len(s) /\ t[i] = s[i + 1] /\ i + 1 # 1
  BY <1>1 DEF IsTail
<1>3. Has(t, m) => Has(s, m)
  BY <1>2 DEF Has
<1>4. ASSUME Has(s, m), s[1] # m PROVE Has(t, m)
  <2>1. PICK i \in 1..Len(s) : s[i] = m
    BY <1>4 DEF Has
  <2>2. i - 1 \in 1..Len(t) /\ (i - 1) + 1 = i
    BY <1>1, <1>4, <2>1
  <2>3. t[i - 1] = s[i]
    BY <1>2, <2>2
  <2> QED
    BY <2>1, <2>2, <2>3 DEF Has
<1>5. ASSUME AtMostOne(s, m), NEW i \in 1..Len(t), NEW j \in 1..Len(t), t[i] = m, t[j] = m
      PROVE  i = j
  <2>1. i + 1 = j + 1
    BY <1>2, <1>5 DEF AtMostOne
  <2> QED
    BY <1>1, <2>1
<1>6. ASSUME AtMostOne(s, m), s[1] = m, NEW i \in 1..Len(t) PROVE t[i] # m
  BY <1>1, <1>2, <1>6 DEF AtMostOne
<1>7. s[1] = m => Has(s, m)
  BY <1>1 DEF Has
<1>8. AtMostOne(s, m) => AtMostOne(t, m)
  BY <1>5 DEF AtMostOne
<1>9. AtMostOne(s, m) /\ s[1] = m => ~Has(t, m)
  BY <1>6 DEF Has
<1> QED
  BY <1>3, <1>4, <1>7, <1>8, <1>9

\* Whether a message is in a stream, before and after others are sent.
LEMMA ConcatHas ==
  ASSUME NEW s, NEW c, NEW t, NEW m, IsConcat(t, s, c)
  PROVE  /\ Has(t, m) <=> Has(s, m) \/ Has(c, m)
         /\ AtMostOne(s, m) /\ ~Has(c, m) => AtMostOne(t, m)
         /\ AtMostOne(c, m) /\ ~Has(s, m) => AtMostOne(t, m)
<1>1. /\ Len(s) \in Nat /\ Len(c) \in Nat /\ Len(t) = Len(s) + Len(c)
      /\ \A i \in 1..Len(s) : i \in 1..Len(t)
      /\ \A i \in 1..Len(c) : Len(s) + i \in 1..Len(t)
  BY DEF IsConcat
<1>2. /\ \A i \in 1..Len(s) : t[i] = s[i]
      /\ \A i \in 1..Len(c) : t[Len(s) + i] = c[i]
      /\ \A i \in 1..Len(t) : i \in 1..Len(s) \/ \E k \in 1..Len(c) : i = Len(s) + k
  BY DEF IsConcat
<1>3. Has(t, m) <=> Has(s, m) \/ Has(c, m)
  <2>1. ASSUME Has(t, m) PROVE Has(s, m) \/ Has(c, m)
    <3>1. PICK i \in 1..Len(t) : t[i] = m
      BY <2>1 DEF Has
    <3>2. CASE i \in 1..Len(s)
      BY <1>2, <3>1, <3>2 DEF Has
    <3>3. ASSUME NEW k \in 1..Len(c), i = Len(s) + k PROVE Has(c, m)
      BY <1>2, <3>1, <3>3 DEF Has
    <3> QED
      BY <1>2, <3>2, <3>3
  <2>2. ASSUME NEW i \in 1..Len(s), s[i] = m PROVE Has(t, m)
    BY <1>1, <1>2, <2>2 DEF Has
  <2>3. ASSUME NEW k \in 1..Len(c), c[k] = m PROVE Has(t, m)
    BY <1>1, <1>2, <2>3 DEF Has
  <2>4. Has(s, m) => Has(t, m)
    BY <2>2 DEF Has
  <2>5. Has(c, m) => Has(t, m)
    BY <2>3 DEF Has
  <2> QED
    BY <2>1, <2>4, <2>5
<1>4. ASSUME AtMostOne(s, m), ~Has(c, m), NEW i \in 1..Len(t), NEW j \in 1..Len(t),
             t[i] = m, t[j] = m
      PROVE  i = j
  <2>1. i \in 1..Len(s) /\ j \in 1..Len(s)
    BY <1>2, <1>4 DEF Has
  <2> QED
    BY <1>2, <1>4, <2>1 DEF AtMostOne
<1>5. ASSUME AtMostOne(c, m), ~Has(s, m), NEW i \in 1..Len(t), NEW j \in 1..Len(t),
             t[i] = m, t[j] = m
      PROVE  i = j
  <2>1. i \notin 1..Len(s) /\ j \notin 1..Len(s)
    BY <1>2, <1>5 DEF Has
  <2>2. PICK k \in 1..Len(c) : i = Len(s) + k
    BY <1>2, <2>1
  <2>3. PICK l \in 1..Len(c) : j = Len(s) + l
    BY <1>2, <2>1
  <2>4. c[k] = m /\ c[l] = m
    BY <1>2, <1>5, <2>2, <2>3
  <2>5. k = l
    BY <1>5, <2>4 DEF AtMostOne
  <2> QED
    BY <2>2, <2>3, <2>5
<1>6. AtMostOne(s, m) /\ ~Has(c, m) => AtMostOne(t, m)
  BY <1>4 DEF AtMostOne
<1>7. AtMostOne(c, m) /\ ~Has(s, m) => AtMostOne(t, m)
  BY <1>5 DEF AtMostOne
<1> QED
  BY <1>3, <1>6, <1>7

(***************************************************************************)
(* What the tool reads.                                                    *)
(***************************************************************************)

\* A recv takes the first message, and no other unless that is recorded.
LEMMA TakesFirst ==
  ASSUME StepInv, recv_msg, tool.at \in {"option", "address", "id"}
  PROVE  /\ to_tool' \in Seq(Messages) /\ skewed' \in BOOLEAN
         /\ ~skewed' => /\ ~skewed /\ IsTail(to_tool', to_tool) /\ msg = to_tool[1]
                        /\ Commands(to_tool')
<1> USE DEF StepInv, ToolTypes
<1>1. CASE to_tool = <<>> /\ closed /\ UNCHANGED <<to_tool, skewed>>
  <2>1. ~skewed => Len(to_tool) >= 1
    BY <1>1 DEF EndsWithQuit, At
  <2>2. Len(to_tool) = 0
    BY <1>1
  <2> QED
    BY <1>1, <2>1, <2>2
<1>2. CASE \E n \in 1..Len(to_tool) :
             /\ to_tool' = SubSeq(to_tool, n + 1, Len(to_tool))
             /\ skewed' = (skewed \/ n > 1)
  <2>1. PICK n \in 1..Len(to_tool) : /\ to_tool' = SubSeq(to_tool, n + 1, Len(to_tool))
                                     /\ skewed' = (skewed \/ n > 1)
    BY <1>2
  <2>2. to_tool' \in Seq(Messages) /\ Head(to_tool) = to_tool[1]
        /\ (n = 1 => IsTail(to_tool', to_tool))
    BY <2>1, SubSeqIsTail
  <2>3. skewed' \in BOOLEAN /\ (~skewed' => ~skewed /\ n = 1)
    <3>1. (n > 1) \in BOOLEAN /\ (n = 1 \/ n > 1)
      BY <2>1
    <3> HIDE DEF StepInv, ToolTypes
    <3>2. skewed' \in BOOLEAN /\ (~skewed' => ~skewed /\ ~(n > 1))
      BY <2>1, <3>1, Zenon
    <3> QED
      BY <3>1, <3>2
  <2>4. to_tool # <<>>
    BY <2>1
  <2>5. msg = to_tool[1]
    BY <2>2, <2>4 DEF msg
  <2> QED
    BY <2>2, <2>3, <2>5, CommandsTail
<1> QED
  BY <1>1, <1>2 DEF recv_msg

\* The last message stays the last one, unless it was the first.
LEMMA QuitStaysLast ==
  ASSUME StepInv, ~skewed, IsTail(to_tool', to_tool), closed' = closed,
         tool.at # "ended", tool'.at = "ended" => to_tool[1] = "q",
         to_tool[1] = "q" => tool'.at = "ended"
  PROVE  EndsWithQuit'
<1>1. Len(to_tool) \in Nat \ {0} /\ Len(to_tool') = Len(to_tool) - 1
      /\ \A i \in 1..Len(to_tool') : i + 1 \in 1..Len(to_tool) /\ to_tool'[i] = to_tool[i + 1]
  BY DEF IsTail
<1>2. CASE ~closed
  <2>1. NoQuit(to_tool)
    BY <1>2 DEF StepInv, EndsWithQuit
  <2>2. NoQuit(to_tool')
    BY <1>1, <2>1 DEF NoQuit
  <2>3. tool'.at # "ended"
    BY <1>1, <2>1 DEF NoQuit
  <2>4. ~closed'
    BY <1>2
  <2> QED
    BY <2>2, <2>3, <2>4 DEF EndsWithQuit, At, NoQuit
<1>3. CASE closed /\ tool'.at # "ended"
  <2>1. to_tool[Len(to_tool)] = "q" /\ to_tool[1] # "q"
    BY <1>3 DEF StepInv, EndsWithQuit, At
  <2>2. Len(to_tool) # 1
    BY <2>1
  <2>3. Len(to_tool') >= 1 /\ Len(to_tool') + 1 = Len(to_tool)
    BY <1>1, <2>2
  <2>4. to_tool'[Len(to_tool')] = to_tool[Len(to_tool') + 1]
    BY <1>1, <2>3
  <2> QED
    BY <1>3, <2>1, <2>3, <2>4 DEF EndsWithQuit, At
<1>4. CASE closed /\ tool'.at = "ended"
  BY <1>4 DEF EndsWithQuit, At
<1> QED
  BY <1>2, <1>3, <1>4

\* The dialog sends whole commands, and "q" after all of them.
LEMMA SendsKeep ==
  ASSUME StepInv, NEW c \in Seq(Messages), to_tool' = to_tool \o c, tool' = tool,
         skewed' = skewed, ~closed, ToolTypes',
         Len(c) >= 1, c[1] \in Openers, Commands(c),
         ~closed' => NoQuit(c),
         closed' => c[Len(c)] = "q"
  PROVE  StepInv'
<1> SUFFICES ASSUME ~skewed PROVE Commands(to_tool') /\ Expected(to_tool)' /\ EndsWithQuit'
  BY DEF StepInv
<1>1. /\ to_tool \in Seq(Messages) /\ Commands(to_tool) /\ Expected(to_tool)
      /\ ~At("ended") /\ NoQuit(to_tool)
  BY DEF StepInv, ToolTypes, EndsWithQuit
<1>2. IsConcat(to_tool', to_tool, c)
  BY <1>1, ConcatIsConcat
<1>3. Commands(to_tool')
  BY <1>1, <1>2, CommandsConcat
<1>4. Expected(to_tool)'
  <2>1. Expected(to_tool')
    BY <1>1, <1>2, ExpectedConcat
  <2> QED
    BY <2>1 DEF Expected, At
<1>5. EndsWithQuit'
  <2>1. /\ Len(to_tool) \in Nat /\ Len(c) \in Nat /\ Len(to_tool') = Len(to_tool) + Len(c)
        /\ to_tool'[Len(to_tool) + Len(c)] = c[Len(c)]
    BY <1>2 DEF IsConcat
  <2>2. CASE ~closed'
    <3>1. \A i \in 1..Len(to_tool') : to_tool'[i] # "q"
      <4> SUFFICES ASSUME NEW i \in 1..Len(to_tool') PROVE to_tool'[i] # "q"
        OBVIOUS
      <4>1. CASE i \in 1..Len(to_tool)
        BY <1>1, <1>2, <4>1 DEF IsConcat, NoQuit
      <4>2. CASE i \notin 1..Len(to_tool)
        <5>1. PICK k \in 1..Len(c) : i = Len(to_tool) + k
          BY <1>2, <4>2 DEF IsConcat
        <5>2. to_tool'[i] = c[k]
          BY <1>2, <5>1 DEF IsConcat
        <5> QED
          BY <2>2, <5>2 DEF NoQuit
      <4> QED
        BY <4>1, <4>2
    <3> QED
      BY <1>1, <2>2, <3>1 DEF EndsWithQuit, NoQuit, At
  <2>3. CASE closed'
    BY <2>1, <2>3 DEF EndsWithQuit
  <2> QED
    BY <2>2, <2>3
<1> QED
  BY <1>3, <1>4, <1>5

\* What the dialog sends.
LEMMA CommandsOf ==
  ASSUME NEW x \in Ids
  PROVE  /\ \A c \in {<<"-l", "address">>, <<"-a", "address", x>>, <<"q">>, <<"-d">>} :
              c \in Seq(Messages) /\ Len(c) >= 1
         /\ \A c \in {<<"-l", "address">>, <<"-a", "address", x>>} :
              Commands(c) /\ NoQuit(c) /\ c[1] \in Openers
         /\ Commands(<<"q">>) /\ <<"q">>[1] \in Openers /\ <<"q">>[Len(<<"q">>)] = "q"
<1>1. /\ {"-l", "address", "-a", "q", "-d", x} \subseteq Messages
      /\ x # "q" /\ x \notin {"-l", "-a"}
  BY DEF Messages, Options, Ids
<1>2. /\ <<"-l", "address">> \in Seq(Messages) /\ <<"-a", "address", x>> \in Seq(Messages)
      /\ <<"q">> \in Seq(Messages) /\ <<"-d">> \in Seq(Messages)
  BY <1>1
<1>3. Commands(<<"-l", "address">>) /\ NoQuit(<<"-l", "address">>)
  <2> DEFINE c == <<"-l", "address">>
  <2>1. Len(c) = 2 /\ c[1] = "-l" /\ c[2] = "address" /\ \A i \in 1..2 : i = 1 \/ i = 2
    OBVIOUS
  <2>2. 1 + 1 = 2 /\ 1 + 2 = 3 /\ 2 + 1 = 3 /\ 2 + 2 = 4 /\ ~(3 <= 2) /\ ~(4 <= 2) /\ 2 <= 2
    OBVIOUS
  <2> HIDE DEF c
  <2>3. GoesOn(c, 1) /\ GoesOn(c, 2)
    BY <2>1, <2>2 DEF GoesOn, Ids
  <2>4. Commands(c) /\ NoQuit(c)
    BY <2>1, <2>3 DEF Commands, NoQuit
  <2> QED
    BY <2>4 DEF c
<1>4. Commands(<<"-a", "address", x>>) /\ NoQuit(<<"-a", "address", x>>)
  <2> DEFINE c == <<"-a", "address", x>>
  <2>1. Len(c) = 3 /\ c[1] = "-a" /\ c[2] = "address" /\ c[3] = x
        /\ \A i \in 1..3 : i = 1 \/ i = 2 \/ i = 3
    OBVIOUS
  <2>5. 1 + 1 = 2 /\ 1 + 2 = 3 /\ 2 + 1 = 3 /\ 2 + 2 = 4 /\ 3 + 1 = 4 /\ 3 + 2 = 5
        /\ ~(4 <= 3) /\ ~(5 <= 3) /\ 2 <= 3 /\ 3 <= 3
    OBVIOUS
  <2> HIDE DEF c
  <2>2. GoesOn(c, 1) /\ GoesOn(c, 2) /\ GoesOn(c, 3)
    BY <1>1, <2>1, <2>5 DEF GoesOn, Ids
  <2>3. Commands(c) /\ NoQuit(c)
    BY <1>1, <2>1, <2>2 DEF Commands, NoQuit
  <2> QED
    BY <2>3 DEF c
<1>5. Commands(<<"q">>) /\ <<"q">>[1] \in Openers /\ <<"q">>[Len(<<"q">>)] = "q"
  <2> DEFINE c == <<"q">>
  <2>1. Len(c) = 1 /\ c[1] = "q" /\ \A i \in 1..1 : i = 1
    OBVIOUS
  <2> HIDE DEF c
  <2>2. GoesOn(c, 1)
    BY <2>1 DEF GoesOn, Ids
  <2>3. Commands(c) /\ c[1] \in Openers /\ c[Len(c)] = "q"
    BY <2>1, <2>2 DEF Commands, Openers
  <2> QED
    BY <2>3 DEF c
<1>6. /\ Len(<<"-l", "address">>) >= 1 /\ Len(<<"-a", "address", x>>) >= 1
      /\ Len(<<"q">>) >= 1 /\ Len(<<"-d">>) >= 1
      /\ <<"-l", "address">>[1] \in Openers /\ <<"-a", "address", x>>[1] \in Openers
  BY DEF Openers
<1> QED
  BY <1>2, <1>3, <1>4, <1>5, <1>6

\* What the dialog sends keeps the stream made of commands.
LEMMA DialogKeepsStep ==
  ASSUME StepInv, User \/ OnReceiveData
  PROVE  StepInv'
<1>1. /\ tool' = tool
      /\ to_tool \in Seq(Messages)
  BY DEF User, OnBnClickedList, OnCbnSelchangeBusid, OnBnClickedConnect,
         OnBnClickedDisconnect, OnClose, OnReceiveData, StepInv, ToolTypes
<1>2. ASSUME to_tool' \in Seq(Messages) PROVE ToolTypes'
  <2>1. /\ buttons' \in [list : BOOLEAN, connect : BOOLEAN, disconnect : BOOLEAN]
        /\ chosen' \in BOOLEAN /\ closed' \in BOOLEAN /\ skewed' \in BOOLEAN
        /\ unseen' \in BOOLEAN
    <3> USE DEF StepInv, ToolTypes
    <3>1. CASE OnBnClickedList \/ OnBnClickedConnect
      <4>1. /\ chosen' = chosen /\ closed' = closed /\ skewed' = skewed
            /\ unseen' = unseen
            /\ \/ buttons' = buttons
               \/ buttons' = [list |-> FALSE, connect |-> FALSE, disconnect |-> TRUE]
        BY <3>1 DEF OnBnClickedList, OnBnClickedConnect
      <4> HIDE DEF StepInv, ToolTypes
      <4>2. [list |-> FALSE, connect |-> FALSE, disconnect |-> TRUE]
              \in [list : BOOLEAN, connect : BOOLEAN, disconnect : BOOLEAN]
        OBVIOUS
      <4> QED
        BY <4>1, <4>2, Zenon DEF StepInv, ToolTypes
    <3>2. CASE OnCbnSelchangeBusid \/ OnClose
      BY <3>2 DEF OnCbnSelchangeBusid, OnClose
    <3>3. CASE OnBnClickedDisconnect
      BY <3>3 DEF OnBnClickedDisconnect
    <3>4. CASE OnReceiveData
      <4>1. /\ chosen' = chosen /\ closed' = closed /\ skewed' = skewed
            /\ unseen' = unseen \/ unseen' = (unseen \/ buttons.disconnect)
        BY <3>4 DEF OnReceiveData
      <4>2. unseen' \in BOOLEAN
        BY <4>1, Zenon
      <4>3. \/ buttons' = buttons
            \/ buttons' = [buttons EXCEPT !.connect = TRUE, !.disconnect = FALSE]
            \/ buttons' = [list |-> TRUE, connect |-> TRUE, disconnect |-> FALSE]
        BY <3>4 DEF OnReceiveData
      <4>4. buttons' \in [list : BOOLEAN, connect : BOOLEAN, disconnect : BOOLEAN]
        <5>1. buttons \in [list : BOOLEAN, connect : BOOLEAN, disconnect : BOOLEAN]
          OBVIOUS
        <5> HIDE DEF StepInv, ToolTypes
        <5>2. /\ [buttons EXCEPT !.connect = TRUE, !.disconnect = FALSE]
                   \in [list : BOOLEAN, connect : BOOLEAN, disconnect : BOOLEAN]
              /\ [list |-> TRUE, connect |-> TRUE, disconnect |-> FALSE]
                   \in [list : BOOLEAN, connect : BOOLEAN, disconnect : BOOLEAN]
          BY <5>1
        <5> QED
          BY <4>3, <5>1, <5>2, Zenon
      <4> QED
        BY <4>1, <4>2, <4>4
    <3> QED
      BY <3>1, <3>2, <3>3, <3>4 DEF User
  <2>2. to_ui' \in Seq(News)
    <3>1. to_ui \in Seq(News)
      BY DEF StepInv, ToolTypes
    <3>2. \/ to_ui' = to_ui \/ to_ui' = <<>>
          \/ to_ui # <<>> /\ to_ui' = Tail(to_ui)
      BY DEF User, OnBnClickedList, OnCbnSelchangeBusid, OnBnClickedConnect,
             OnBnClickedDisconnect, OnClose, OnReceiveData
    <3>3. <<>> \in Seq(News)
      OBVIOUS
    <3>4. to_ui # <<>> => Tail(to_ui) \in Seq(News)
      BY <3>1
    <3> QED
      BY <3>1, <3>2, <3>3, <3>4, Zenon
  <2> QED
    BY <1>1, <1>2, <2>1, <2>2 DEF StepInv, ToolTypes
<1>3. ASSUME NEW c \in Seq(Messages), to_tool' = to_tool \o c PROVE ToolTypes'
  BY <1>1, <1>2, <1>3, ConcatIsConcat
<1>4. CASE OnBnClickedList
  <2>1. to_tool' = to_tool \o <<"-l", "address">> /\ skewed' = skewed /\ ~closed /\ ~closed'
    BY <1>4 DEF OnBnClickedList, Sends, Click
  <2>2. "id" \in Ids
    BY DEF Ids
  <2> QED
    BY <1>1, <1>3, <2>1, <2>2, CommandsOf, SendsKeep
<1>5. CASE OnBnClickedConnect
  <2>1. PICK x \in Ids : to_tool' = to_tool \o <<"-a", "address", x>>
    BY <1>5 DEF OnBnClickedConnect, Sends, ConnectMessages, Ids
  <2>2. skewed' = skewed /\ ~closed /\ ~closed'
    BY <1>5 DEF OnBnClickedConnect, Click
  <2> QED
    BY <1>1, <1>3, <2>1, <2>2, CommandsOf, SendsKeep
<1>6. CASE OnClose
  <2>1. to_tool' = to_tool \o <<"q">> /\ skewed' = skewed /\ ~closed /\ closed'
    BY <1>6 DEF OnClose, Sends
  <2>2. "id" \in Ids
    BY DEF Ids
  <2> QED
    BY <1>1, <1>3, <2>1, <2>2, CommandsOf, SendsKeep
<1>7. CASE OnBnClickedDisconnect
  <2>1. to_tool' = to_tool \o <<"-d">> /\ skewed'
    BY <1>7 DEF OnBnClickedDisconnect, Sends
  <2>2. "id" \in Ids
    BY DEF Ids
  <2>3. <<"-d">> \in Seq(Messages)
    BY <2>2, CommandsOf
  <2> QED
    BY <1>3, <2>1, <2>3 DEF StepInv
<1>8. CASE OnCbnSelchangeBusid \/ OnReceiveData
  <2>1. to_tool' = to_tool /\ skewed' = skewed /\ closed' = closed
    BY <1>8 DEF OnCbnSelchangeBusid, OnReceiveData
  <2>2. ToolTypes'
    BY <1>1, <1>2, <2>1
  <2> QED
    BY <1>1, <2>1, <2>2 DEF StepInv, Expected, EndsWithQuit, NoQuit, At
<1> QED
  BY <1>4, <1>5, <1>6, <1>7, <1>8 DEF User

\* The tool reads the parts of a command one after the other.
LEMMA ReadsKeepStep ==
  ASSUME StepInv, MainOption \/ MainAddress \/ MainId
  PROVE  StepInv'
<1>1. /\ tool.at \in {"option", "address", "id"} /\ tool = [at |-> tool.at, option |-> tool.option]
      /\ recv_msg /\ to_ui' = to_ui /\ closed' = closed
      /\ buttons' = buttons /\ chosen' = chosen /\ unseen' = unseen
  BY DEF MainOption, MainAddress, MainId, At, StepInv, ToolTypes, uiVars
<1>2. /\ to_tool' \in Seq(Messages) /\ skewed' \in BOOLEAN
      /\ ~skewed' => /\ ~skewed /\ IsTail(to_tool', to_tool) /\ msg = to_tool[1]
                     /\ Commands(to_tool')
  BY <1>1, TakesFirst
<1> DEFINE Places == {"option", "address", "id", "list", "query", "ended"}
<1>3. ASSUME NEW at \in Places, NEW option, tool' = [at |-> at, option |-> option],
             ~skewed' => /\ Expected(to_tool)'
                         /\ at = "ended" <=> to_tool[1] = "q"
      PROVE  StepInv'
  <2>1. tool'.at = at /\ tool'.option = option
    BY <1>3
  <2>2. ToolTypes'
    BY <1>1, <1>2, <1>3, <2>1 DEF StepInv, ToolTypes
  <2>3. ~skewed' => EndsWithQuit'
    BY <1>1, <1>2, <1>3, <2>1, QuitStaysLast
  <2> QED
    BY <1>2, <1>3, <2>2, <2>3 DEF StepInv
<1>4. ~skewed' => /\ Len(to_tool) \in Nat \ {0} /\ Len(to_tool') = Len(to_tool) - 1
                  /\ Len(to_tool') >= 1 => Len(to_tool) >= 2 /\ to_tool'[1] = to_tool[2]
                  /\ Len(to_tool') >= 2 => to_tool'[2] = to_tool[3]
                  /\ Expected(to_tool) /\ GoesOn(to_tool, 1)
  <2> SUFFICES ASSUME ~skewed'
               PROVE  /\ Len(to_tool) \in Nat \ {0} /\ Len(to_tool') = Len(to_tool) - 1
                      /\ Len(to_tool') >= 1 => Len(to_tool) >= 2 /\ to_tool'[1] = to_tool[2]
                      /\ Len(to_tool') >= 2 => to_tool'[2] = to_tool[3]
                      /\ Expected(to_tool) /\ GoesOn(to_tool, 1)
    OBVIOUS
  <2>1. Len(to_tool) \in Nat \ {0} /\ Len(to_tool') = Len(to_tool) - 1
        /\ \A i \in 1..Len(to_tool') : to_tool'[i] = to_tool[i + 1]
    BY <1>2 DEF IsTail
  <2>2. Expected(to_tool) /\ Commands(to_tool)
    BY <1>2 DEF StepInv
  <2>3. 1 \in 1..Len(to_tool)
    BY <2>1
  <2>4. GoesOn(to_tool, 1)
    BY <2>2, <2>3 DEF Commands
  <2> QED
    BY <2>1, <2>2, <2>4
<1>5. CASE MainOption
  <2>1. CASE msg = "q"
    <3>1. tool' = [at |-> "ended", option |-> tool.option]
      BY <1>1, <1>5, <2>1 DEF MainOption
    <3>2. ~skewed' => Expected(to_tool)' /\ to_tool[1] = "q"
      BY <1>2, <2>1, <3>1 DEF Expected, At
    <3> QED
      BY <1>3, <3>1, <3>2
  <2>2. CASE msg # "q"
    <3>1. tool' = [at |-> "address", option |-> msg] /\ At("option")
      BY <1>5, <2>2 DEF MainOption
    <3>2. ASSUME ~skewed' PROVE Expected(to_tool)' /\ to_tool[1] # "q"
      <4>1. msg = to_tool[1] /\ to_tool[1] \in {"-a", "-l"}
        BY <1>2, <1>4, <2>2, <3>1, <3>2 DEF Expected, At, Openers
      <4>2. tool'.at = "address" /\ tool'.option = msg
        BY <3>1
      <4>3. /\ Len(to_tool') >= 1 /\ to_tool'[1] = "address"
            /\ msg = "-a" => Len(to_tool') >= 2 /\ to_tool'[2] \in Ids
            /\ msg = "-l" /\ Len(to_tool') >= 2 => to_tool'[2] \in Openers
        BY <1>4, <3>2, <4>1 DEF GoesOn
      <4> QED
        BY <4>1, <4>2, <4>3 DEF Expected, At
    <3> HIDE DEF msg
    <3> QED
      BY <1>3, <3>1, <3>2
  <2> QED
    BY <2>1, <2>2
<1>6. CASE MainAddress
  <2> DEFINE at == CASE tool.option = "-a" -> "id"
                     [] tool.option = "-l" -> "list"
                     [] OTHER -> "option"
  <2>1. tool' = [tool EXCEPT !.at = at] /\ At("address")
    BY <1>6, Zenon DEF MainAddress
  <2>2. /\ tool.option = "-a" => at = "id"
        /\ tool.option = "-l" => at = "list"
        /\ tool.option \notin {"-a", "-l"} => at = "option"
    <3>1. tool.option = "-a" => at = "id"
      OBVIOUS
    <3>2. tool.option = "-l" => at = "list"
      OBVIOUS
    <3>3. tool.option \notin {"-a", "-l"} => at = "option"
      OBVIOUS
    <3> HIDE DEF at
    <3> QED
      BY <3>1, <3>2, <3>3
  <2> HIDE DEF at
  <2>3. at \in Places /\ at # "ended"
    BY <2>2
  <2>4. tool' = [at |-> at, option |-> tool.option] /\ tool'.at = at
    BY <1>1, <2>1
  <2>5. ASSUME ~skewed' PROVE Expected(to_tool)' /\ to_tool[1] # "q"
    <3>1. /\ tool.option \in {"-a", "-l"} /\ to_tool[1] = "address"
          /\ tool.option = "-a" => Len(to_tool') >= 1 /\ to_tool[2] \in Ids
          /\ tool.option = "-l" /\ Len(to_tool') >= 1 => to_tool[2] \in Openers
      BY <1>4, <2>1, <2>5 DEF Expected
    <3>2. CASE tool.option = "-a"
      <4>1. /\ to_tool'[1] \in Ids /\ Len(to_tool') >= 1 /\ at = "id"
            /\ Len(to_tool') \in Nat
        BY <1>4, <2>2, <2>5, <3>1, <3>2
      <4>2. Len(to_tool') >= 2 => to_tool'[2] \in Openers
        <5>1. 1 \in 1..Len(to_tool')
          BY <4>1
        <5>2. GoesOn(to_tool', 1)
          BY <1>2, <2>5, <5>1 DEF Commands
        <5> QED
          BY <4>1, <5>2 DEF GoesOn
      <4> QED
        BY <2>4, <3>1, <4>1, <4>2 DEF Expected, At
    <3>3. CASE tool.option = "-l"
      <4>1. at = "list" /\ (Len(to_tool') >= 1 => to_tool'[1] \in Openers)
        BY <1>4, <2>2, <2>5, <3>1, <3>3
      <4> QED
        BY <2>4, <3>1, <4>1 DEF Expected, At
    <3> QED
      BY <3>1, <3>2, <3>3
  <2> QED
    BY <1>3, <2>3, <2>4, <2>5
<1>7. CASE MainId
  <2>1. tool' = [at |-> "query", option |-> msg] /\ At("id") /\ tool'.at = "query"
    BY <1>7 DEF MainId
  <2>2. ASSUME ~skewed' PROVE Expected(to_tool)' /\ to_tool[1] # "q"
    <3>1. to_tool[1] \in Ids /\ (Len(to_tool') >= 1 => to_tool'[1] \in Openers)
      BY <1>4, <2>1, <2>2 DEF Expected, GoesOn
    <3> QED
      BY <2>1, <3>1 DEF Expected, At, Ids
  <2> HIDE DEF msg
  <2> QED
    BY <1>3, <2>1, <2>2
<1> QED
  BY <1>5, <1>6, <1>7

\* What a command does to the messages to the dialog.
LEMMA CommandsKeepStep ==
  ASSUME StepInv,
         ShowExportedDevices \/ QueryInterface \/ QueryImport \/ ImportDevice \/ AttachReturns
  PROVE  StepInv'
<1>1. /\ tool.at \in {"list", "query", "import", "plug", "session"}
      /\ to_tool' = to_tool /\ skewed' = skewed /\ closed' = closed
      /\ buttons' = buttons /\ chosen' = chosen
      /\ unseen' \in BOOLEAN
  BY DEF ShowExportedDevices, QueryInterface, QueryImport, ImportDevice, AttachReturns, At,
         uiVars, StepInv, ToolTypes
<1>2. PICK at \in {"option", "import", "plug", "session"} : tool' = [at |-> at, option |-> ""]
  BY DEF ShowExportedDevices, QueryInterface, QueryImport, ImportDevice, AttachReturns, Back,
         Fails
<1>3. to_ui' \in Seq(News)
  <2>1. to_ui \in Seq(News)
    BY DEF StepInv, ToolTypes
  <2>2. \/ to_ui' = to_ui
        \/ \E m \in News : to_ui' = Append(to_ui, m)
    BY DEF ShowExportedDevices, QueryInterface, QueryImport, ImportDevice, AttachReturns,
           Fails, Tells, News
  <2> QED
    BY <2>1, <2>2
<1>4. tool'.at = at /\ tool'.option = ""
  BY <1>2
<1> QED
  BY <1>1, <1>2, <1>3, <1>4 DEF StepInv, ToolTypes, Expected, EndsWithQuit, NoQuit, At

\* The stream is made of commands in every state.
LEMMA StepIsInvariant == ToolSpec => []StepInv
<1>1. ToolInit => StepInv
  <2> SUFFICES ASSUME ToolInit PROVE StepInv
    OBVIOUS
  <2>1. to_tool = <<>> /\ to_ui = <<>> /\ tool = [at |-> "option", option |-> ""]
    BY DEF ToolInit
  <2>2. buttons = [list |-> TRUE, connect |-> FALSE, disconnect |-> FALSE] /\ closed = FALSE
    BY DEF ToolInit
  <2>3. /\ chosen \in BOOLEAN /\ closed \in BOOLEAN /\ skewed \in BOOLEAN
        /\ unseen \in BOOLEAN
    BY Zenon DEF ToolInit
  <2>4. buttons \in [list : BOOLEAN, connect : BOOLEAN, disconnect : BOOLEAN]
    BY <2>2
  <2>5. tool.at = "option" /\ tool.option = ""
    BY <2>1
  <2>6. /\ to_tool \in Seq(Messages) /\ to_ui \in Seq(News) /\ Len(to_tool) = 0
        /\ ~(Len(to_tool) >= 1)
        /\ \A i \in 1..Len(to_tool) : FALSE
    <3>1. <<>> \in Seq(Messages) /\ <<>> \in Seq(News) /\ Len(<<>>) = 0
      BY EmptySeq
    <3>2. ~(0 >= 1) /\ \A i \in 1..0 : FALSE
      OBVIOUS
    <3> QED
      BY <2>1, <3>1, <3>2, Zenon
  <2>7. ToolTypes
    BY <2>1, <2>3, <2>4, <2>5, <2>6 DEF ToolTypes
  <2>8. Commands(to_tool) /\ NoQuit(to_tool)
    BY <2>6 DEF Commands, NoQuit
  <2>9. Expected(to_tool)
    <3>1. tool.at \notin {"address", "id", "ended"}
      BY <2>5
    <3> QED
      BY <2>6, <3>1, Zenon DEF Expected, At
  <2>10. EndsWithQuit
    BY <2>2, <2>5, <2>8 DEF EndsWithQuit, At
  <2> QED
    BY <2>7, <2>8, <2>9, <2>10 DEF StepInv
<1>2. StepInv /\ [ToolNext]_toolVars => StepInv'
  <2> SUFFICES ASSUME StepInv, [ToolNext]_toolVars PROVE StepInv'
    OBVIOUS
  <2>1. CASE ToolNext
    BY <2>1, DialogKeepsStep, ReadsKeepStep, CommandsKeepStep DEF ToolNext, main
  <2>2. CASE UNCHANGED toolVars
    BY <2>2 DEF toolVars, StepInv, ToolTypes, Expected, EndsWithQuit, NoQuit, At
  <2> QED
    BY <2>1, <2>2
<1> QED
  BY <1>1, <1>2, PTL DEF ToolSpec

\* As long as every recv takes one message and Disconnect was not pressed, the main loop
\* reads each message for what it is, in whatever order the user presses the others.
THEOREM ToolIsInStep == ToolSpec => []InStep
<1>1. StepInv => InStep
  <2> SUFFICES ASSUME StepInv, ~skewed, to_tool # <<>>
               PROVE  /\ At("option") => Head(to_tool) \in Options
                      /\ At("address") => Head(to_tool) = "address"
                      /\ At("id") => Head(to_tool) \in {"id", "no id"}
    BY DEF InStep
  <2>1. Head(to_tool) = to_tool[1] /\ Len(to_tool) >= 1
    BY DEF StepInv, ToolTypes
  <2> QED
    BY <2>1 DEF StepInv, Expected, At, Ids, Openers, Options
<1> QED
  BY <1>1, StepIsInvariant, PTL

(***************************************************************************)
(* The dialog's buttons.                                                   *)
(***************************************************************************)

\* The tool attaches a device: it has read "-a", and has not come to the session.
Attaching == \/ At("address") /\ tool.option = "-a"
             \/ tool.at \in {"id", "query", "import", "plug"}

\* Where the attach is that Connect was pressed for: with "-a" on its way to the tool, in
\* the tool, in its session, or with "failed" on its way back.
OneAttach ==
  /\ AtMostOne(to_tool, "-a") /\ AtMostOne(to_ui, "failed")
  /\ Has(to_tool, "-a") => ~Attaching /\ ~At("session") /\ ~Has(to_ui, "failed")
  /\ Attaching \/ At("session") => ~Has(to_ui, "failed")
  /\ Has(to_tool, "-a") \/ Attaching \/ At("session") \/ Has(to_ui, "failed")

NoAttach == ~Has(to_tool, "-a") /\ ~Attaching /\ ~At("session") /\ ~Has(to_ui, "failed")

\* Only the button that is right for it can be pressed.
ButtonsInv ==
  ~skewed /\ ~unseen /\ ~closed =>
    /\ buttons.disconnect => ~buttons.list /\ ~buttons.connect /\ OneAttach
    /\ ~buttons.disconnect => NoAttach

\* Nothing is recorded that could excuse the buttons.
Told == ~skewed /\ ~unseen /\ ~closed

\* The dialog's own steps keep its buttons right.
LEMMA DialogKeepsButtons ==
  ASSUME StepInv, ButtonsInv, User \/ OnReceiveData
  PROVE  ButtonsInv'
<1> SUFFICES ASSUME Told'
             PROVE  /\ buttons'.disconnect => ~buttons'.list /\ ~buttons'.connect /\ OneAttach'
                    /\ ~buttons'.disconnect => NoAttach'
  BY DEF ButtonsInv, Told
<1>1. /\ tool' = tool /\ to_tool \in Seq(Messages) /\ to_ui \in Seq(News)
      /\ buttons \in [list : BOOLEAN, connect : BOOLEAN, disconnect : BOOLEAN]
  BY DEF User, OnBnClickedList, OnCbnSelchangeBusid, OnBnClickedConnect,
         OnBnClickedDisconnect, OnClose, OnReceiveData, StepInv, ToolTypes
<1>2. (Attaching' <=> Attaching) /\ (At("session")' <=> At("session"))
  BY <1>1 DEF Attaching, At
<1>3. ASSUME NEW x \in Ids
      PROVE  /\ ~Has(<<"-l", "address">>, "-a")
             /\ Has(<<"-a", "address", x>>, "-a") /\ AtMostOne(<<"-a", "address", x>>, "-a")
  <2> DEFINE l == <<"-l", "address">>
             a == <<"-a", "address", x>>
  <2>1. Len(l) = 2 /\ l[1] = "-l" /\ l[2] = "address" /\ \A i \in 1..2 : i = 1 \/ i = 2
    OBVIOUS
  <2>2. /\ Len(a) = 3 /\ a[1] = "-a" /\ a[2] = "address" /\ a[3] = x
        /\ \A i \in 1..3 : i = 1 \/ i = 2 \/ i = 3
    OBVIOUS
  <2> HIDE DEF l, a
  <2>4. x # "-a" /\ 1 \in 1..3
    <3>1. x # "-a"
      BY DEF Ids
    <3>2. 1 \in 1..3
      OBVIOUS
    <3> QED
      BY <3>1, <3>2
  <2>3. ~Has(l, "-a") /\ Has(a, "-a") /\ AtMostOne(a, "-a")
    BY <2>1, <2>2, <2>4 DEF Has, AtMostOne
  <2> QED
    BY <2>3 DEF l, a
<1>4. CASE OnBnClickedList
  <2>1. /\ Told /\ buttons.list /\ buttons' = buttons /\ to_ui' = to_ui
        /\ to_tool' = to_tool \o <<"-l", "address">>
    BY <1>4 DEF OnBnClickedList, Sends, Told, Click
  <2>2. ~buttons.disconnect /\ NoAttach
    BY <2>1 DEF ButtonsInv, Told
  <2>3. "id" \in Ids
    BY DEF Ids
  <2>4. ~Has(to_tool', "-a")
    <3>1. <<"-l", "address">> \in Seq(Messages)
      BY <2>3, CommandsOf
    <3>2. IsConcat(to_tool', to_tool, <<"-l", "address">>)
      BY <1>1, <2>1, <3>1, ConcatIsConcat
    <3>3. ~Has(<<"-l", "address">>, "-a") /\ ~Has(to_tool, "-a")
      BY <1>3, <2>2, <2>3 DEF NoAttach
    <3> QED
      BY <3>2, <3>3, ConcatHas
  <2> QED
    BY <1>2, <2>1, <2>2, <2>4, Zenon DEF NoAttach
<1>5. CASE OnBnClickedConnect
  <2>1. PICK x \in Ids : to_tool' = to_tool \o <<"-a", "address", x>>
    BY <1>5 DEF OnBnClickedConnect, Sends, ConnectMessages, Ids
  <2>2. /\ Told /\ buttons.connect /\ to_ui' = to_ui
        /\ buttons' = [list |-> FALSE, connect |-> FALSE, disconnect |-> TRUE]
    BY <1>5 DEF OnBnClickedConnect, Told, Click
  <2>3. NoAttach
    BY <2>2 DEF ButtonsInv, Told
  <2>4. <<"-a", "address", x>> \in Seq(Messages)
    BY <2>1, CommandsOf
  <2>5. IsConcat(to_tool', to_tool, <<"-a", "address", x>>)
    BY <1>1, <2>1, <2>4, ConcatIsConcat
  <2>6. Has(to_tool', "-a") /\ AtMostOne(to_tool', "-a")
    BY <1>3, <2>3, <2>5, ConcatHas DEF NoAttach
  <2>7. AtMostOne(to_ui', "failed") /\ ~Has(to_ui', "failed")
    BY <2>2, <2>3 DEF NoAttach, Has, AtMostOne
  <2>8. OneAttach'
    BY <1>2, <2>3, <2>6, <2>7, Zenon DEF OneAttach, NoAttach
  <2> QED
    BY <2>2, <2>8
<1>6. CASE OnBnClickedDisconnect \/ OnClose
  BY <1>6 DEF OnBnClickedDisconnect, OnClose, Told
<1>7. CASE OnCbnSelchangeBusid
  <2>1. Told /\ buttons' = buttons /\ to_ui' = to_ui /\ to_tool' = to_tool
    BY <1>7 DEF OnCbnSelchangeBusid, Told
  <2> QED
    BY <1>2, <2>1, Zenon DEF ButtonsInv, Told, OneAttach, NoAttach
<1>8. CASE OnReceiveData
  <2>1. /\ to_ui # <<>> /\ to_ui' = Tail(to_ui) /\ to_tool' = to_tool
        /\ skewed' = skewed /\ closed' = closed
    BY <1>8 DEF OnReceiveData
  <2>2. IsTail(to_ui', to_ui) /\ Head(to_ui) = to_ui[1]
    BY <1>1, <2>1, TailIsTail
  <2>3. CASE Head(to_ui) = "list"
    <3>1. /\ buttons' = [buttons EXCEPT !.connect = TRUE, !.disconnect = FALSE]
          /\ unseen' = (unseen \/ buttons.disconnect)
      BY <1>8, <2>3 DEF OnReceiveData
    <3>2. ~unseen /\ ~buttons.disconnect
      BY <3>1, Zenon DEF Told
    <3>3. NoAttach
      BY <2>1, <3>2 DEF ButtonsInv, Told
    <3>4. ~Has(to_ui', "failed")
      BY <2>2, <3>3, TailHas DEF NoAttach
    <3>5. NoAttach'
      BY <1>2, <2>1, <3>3, <3>4, Zenon DEF NoAttach
    <3>6. buttons'.disconnect = FALSE
      BY <1>1, <3>1
    <3> QED
      BY <3>5, <3>6
  <2>4. CASE Head(to_ui) = "failed"
    <3>1. /\ buttons' = [list |-> TRUE, connect |-> TRUE, disconnect |-> FALSE]
          /\ unseen' = unseen
      BY <1>8, <2>4 DEF OnReceiveData
    <3>2. Has(to_ui, "failed")
      BY <2>2, <2>4, TailHas
    <3>3. OneAttach
      BY <2>1, <3>1, <3>2 DEF ButtonsInv, Told, NoAttach
    <3>4. ~Has(to_ui', "failed")
      BY <2>2, <2>4, <3>3, TailHas DEF OneAttach
    <3>5. NoAttach'
      BY <1>2, <2>1, <3>2, <3>3, <3>4, Zenon DEF NoAttach, OneAttach
    <3>6. buttons'.disconnect = FALSE
      BY <3>1
    <3> QED
      BY <3>5, <3>6
  <2>5. CASE Head(to_ui) \notin {"list", "failed"}
    <3>1. buttons' = buttons /\ unseen' = unseen
      BY <1>8, <2>5 DEF OnReceiveData
    <3>2. Has(to_ui', "failed") <=> Has(to_ui, "failed")
      BY <2>2, <2>5, TailHas
    <3>3. AtMostOne(to_ui, "failed") => AtMostOne(to_ui', "failed")
      BY <2>2, TailHas
    <3>4. Told
      BY <2>1, <3>1 DEF Told
    <3> QED
      BY <1>2, <2>1, <3>1, <3>2, <3>3, <3>4, Zenon
      DEF ButtonsInv, Told, OneAttach, NoAttach
  <2> QED
    BY <2>3, <2>4, <2>5
<1> QED
  BY <1>4, <1>5, <1>6, <1>7, <1>8 DEF User

\* The tool reads, and what it reads is what it takes it for.
LEMMA ReadsKeepButtons ==
  ASSUME StepInv, ButtonsInv, MainOption \/ MainAddress \/ MainId
  PROVE  ButtonsInv'
<1> SUFFICES ASSUME Told'
             PROVE  /\ buttons'.disconnect => ~buttons'.list /\ ~buttons'.connect /\ OneAttach'
                    /\ ~buttons'.disconnect => NoAttach'
  BY DEF ButtonsInv, Told
<1>1. /\ tool.at \in {"option", "address", "id"} /\ tool = [at |-> tool.at, option |-> tool.option]
      /\ recv_msg /\ to_ui' = to_ui /\ closed' = closed
      /\ buttons' = buttons /\ unseen' = unseen
  BY DEF MainOption, MainAddress, MainId, At, StepInv, ToolTypes, uiVars
<1>2. /\ ~skewed /\ IsTail(to_tool', to_tool) /\ msg = to_tool[1]
      /\ Expected(to_tool)
  BY <1>1, TakesFirst DEF Told, StepInv
<1>3. Told
  BY <1>1, <1>2 DEF Told
<1>4. ~At("session")
  BY <1>1 DEF At
<1>5. /\ to_tool[1] # "-a" => (Has(to_tool', "-a") <=> Has(to_tool, "-a"))
      /\ AtMostOne(to_tool, "-a") => AtMostOne(to_tool', "-a")
      /\ to_tool[1] = "-a" =>
           Has(to_tool, "-a") /\ (AtMostOne(to_tool, "-a") => ~Has(to_tool', "-a"))
  BY <1>2, TailHas
<1>6. CASE to_tool[1] # "-a" /\ (Attaching' <=> Attaching) /\ tool'.at # "session"
  BY <1>1, <1>3, <1>4, <1>5, <1>6, Zenon DEF ButtonsInv, Told, OneAttach, NoAttach, At
<1>7. CASE to_tool[1] = "-a" /\ ~Attaching /\ Attaching' /\ tool'.at # "session"
  <2>1. OneAttach /\ buttons.disconnect /\ ~buttons.list /\ ~buttons.connect
    BY <1>3, <1>5, <1>7, Zenon DEF ButtonsInv, Told, NoAttach
  <2>2. OneAttach'
    BY <1>1, <1>5, <1>7, <2>1, Zenon DEF OneAttach, At
  <2> QED
    BY <1>1, <2>1, <2>2
<1>8. CASE MainOption
  <2>1. ~Attaching /\ At("option")
    BY <1>8 DEF MainOption, Attaching, At
  <2>2. CASE msg = "q"
    <3>1. tool'.at = "ended" /\ to_tool[1] # "-a"
      BY <1>1, <1>2, <1>8, <2>2 DEF MainOption
    <3> QED
      BY <1>6, <2>1, <3>1 DEF Attaching, At
  <2>3. CASE msg # "q"
    <3>1. tool'.at = "address" /\ tool'.option = to_tool[1]
      BY <1>2, <1>8, <2>3 DEF MainOption
    <3>2. Attaching' <=> to_tool[1] = "-a"
      BY <3>1 DEF Attaching, At
    <3> QED
      BY <1>6, <1>7, <2>1, <3>1, <3>2
  <2> QED
    BY <2>2, <2>3
<1>9. CASE MainAddress
  <2>1. At("address") /\ tool.option \in {"-a", "-l"} /\ to_tool[1] = "address"
    BY <1>2, <1>9 DEF MainAddress, Expected
  <2>2. CASE tool.option = "-a"
    <3>1. tool' = [tool EXCEPT !.at = "id"]
      BY <1>9, <2>2 DEF MainAddress
    <3>2. tool'.at = "id"
      BY <1>1, <3>1
    <3> QED
      BY <1>6, <2>1, <2>2, <3>2 DEF Attaching, At
  <2>3. CASE tool.option = "-l"
    <3>1. tool' = [tool EXCEPT !.at = "list"]
      BY <1>9, <2>3 DEF MainAddress
    <3>2. tool'.at = "list"
      BY <1>1, <3>1
    <3> QED
      BY <1>6, <2>1, <2>3, <3>2 DEF Attaching, At
  <2> QED
    BY <2>1, <2>2, <2>3
<1>10. CASE MainId
  <2>1. At("id") /\ to_tool[1] \in Ids /\ tool'.at = "query"
    BY <1>2, <1>10 DEF MainId, Expected
  <2> QED
    BY <1>6, <2>1 DEF Attaching, At, Ids
<1> QED
  BY <1>8, <1>9, <1>10

\* An attach that fails says so; nothing else says it.
LEMMA CommandsKeepButtons ==
  ASSUME StepInv, ButtonsInv,
         ShowExportedDevices \/ QueryInterface \/ QueryImport \/ ImportDevice \/ AttachReturns
  PROVE  ButtonsInv'
<1> SUFFICES ASSUME Told'
             PROVE  /\ buttons'.disconnect => ~buttons'.list /\ ~buttons'.connect /\ OneAttach'
                    /\ ~buttons'.disconnect => NoAttach'
  BY DEF ButtonsInv, Told
<1>1. ~AttachReturns
  BY DEF AttachReturns, Told
<1>2. /\ Told /\ ~closed /\ buttons' = buttons /\ to_tool' = to_tool
      /\ to_ui \in Seq(News)
  BY <1>1 DEF ShowExportedDevices, QueryInterface, QueryImport, ImportDevice, Told, uiVars,
              StepInv, ToolTypes
<1>3. ASSUME NEW m \in News, to_ui' = Append(to_ui, m)
      PROVE  /\ Has(to_ui', "failed") <=> Has(to_ui, "failed") \/ m = "failed"
             /\ AtMostOne(to_ui, "failed") /\ m # "failed" => AtMostOne(to_ui', "failed")
             /\ ~Has(to_ui, "failed") => AtMostOne(to_ui', "failed")
  <2>1. to_ui' = to_ui \o <<m>> /\ <<m>> \in Seq(News)
    BY <1>2, <1>3
  <2>2. IsConcat(to_ui', to_ui, <<m>>)
    BY <1>2, <2>1, ConcatIsConcat
  <2>3. (Has(<<m>>, "failed") <=> m = "failed") /\ AtMostOne(<<m>>, "failed")
    <3>1. Len(<<m>>) = 1 /\ <<m>>[1] = m /\ 1 \in 1..1 /\ \A i \in 1..1 : i = 1
      OBVIOUS
    <3> QED
      BY <3>1 DEF Has, AtMostOne
  <2> QED
    BY <2>2, <2>3, ConcatHas
<1>4. CASE /\ to_ui' = to_ui \/ \E m \in News \ {"failed"} : to_ui' = Append(to_ui, m)
           /\ Attaching \/ At("session") <=> Attaching' \/ At("session")'
  <2>1. /\ Has(to_ui', "failed") <=> Has(to_ui, "failed")
        /\ AtMostOne(to_ui, "failed") => AtMostOne(to_ui', "failed")
    <3>1. CASE to_ui' = to_ui
      BY <3>1
    <3>2. CASE \E m \in News \ {"failed"} : to_ui' = Append(to_ui, m)
      <4>1. PICK m \in News : m # "failed" /\ to_ui' = Append(to_ui, m)
        BY <3>2
      <4> QED
        BY <1>3, <4>1
    <3> QED
      BY <1>4, <3>1, <3>2
  <2> QED
    BY <1>2, <1>4, <2>1, Zenon DEF ButtonsInv, Told, OneAttach, NoAttach
<1>5. CASE Attaching /\ Fails
  <2>1. to_ui' = Append(to_ui, "failed") /\ "failed" \in News /\ tool' = [at |-> "option", option |-> ""]
    BY <1>2, <1>5 DEF Fails, Back, Tells, News
  <2>2. ~Attaching' /\ ~At("session")'
    BY <2>1 DEF Attaching, At
  <2>3. buttons.disconnect /\ ~buttons.list /\ ~buttons.connect /\ OneAttach
    BY <1>2, <1>5, Zenon DEF ButtonsInv, Told, NoAttach
  <2>4. Has(to_ui', "failed") /\ AtMostOne(to_ui', "failed")
    BY <1>3, <1>5, <2>1, <2>3 DEF OneAttach
  <2>5. ~Has(to_tool', "-a") /\ AtMostOne(to_tool', "-a")
    BY <1>2, <1>5, <2>3, Zenon DEF OneAttach
  <2>6. OneAttach'
    BY <2>2, <2>4, <2>5, Zenon DEF OneAttach
  <2> QED
    BY <1>2, <2>3, <2>6
<1>6. CASE ShowExportedDevices
  <2>1. At("list") /\ tool' = [at |-> "option", option |-> ""]
        /\ (to_ui' = to_ui \/ \E m \in {"no connection", "list"} : to_ui' = Append(to_ui, m))
    BY <1>2, <1>6 DEF ShowExportedDevices, Back, Tells
  <2>2. {"no connection", "list"} \subseteq News \ {"failed"}
    BY DEF News
  <2>3. ~Attaching /\ ~Attaching' /\ ~At("session") /\ ~At("session")'
    BY <2>1 DEF Attaching, At
  <2> QED
    BY <1>4, <2>1, <2>2, <2>3
<1>7. CASE QueryInterface
  <2>1. At("query") /\ Attaching
    BY <1>7 DEF QueryInterface, Attaching, At
  <2>2. \/ Fails
        \/ tool' = [at |-> "import", option |-> ""] /\ to_ui' = to_ui
    BY <1>7 DEF QueryInterface
  <2>3. ASSUME tool' = [at |-> "import", option |-> ""] PROVE Attaching'
    BY <2>3 DEF Attaching, At
  <2> QED
    BY <1>4, <1>5, <2>1, <2>2, <2>3
<1>8. CASE QueryImport
  <2>1. At("import") /\ Attaching
    BY <1>8 DEF QueryImport, Attaching, At
  <2>2. \/ Fails
        \/ tool' = [at |-> "plug", option |-> ""] /\ to_ui' = to_ui
    BY <1>8 DEF QueryImport
  <2>3. ASSUME tool' = [at |-> "plug", option |-> ""] PROVE Attaching'
    BY <2>3 DEF Attaching, At
  <2> QED
    BY <1>4, <1>5, <2>1, <2>2, <2>3
<1>9. CASE ImportDevice
  <2>1. At("plug") /\ Attaching
    BY <1>9 DEF ImportDevice, Attaching, At
  <2>2. \/ Fails
        \/ tool' = [at |-> "session", option |-> ""] /\ to_ui' = Append(to_ui, "attached")
    BY <1>2, <1>9 DEF ImportDevice, Tells
  <2>3. ASSUME tool' = [at |-> "session", option |-> ""] PROVE At("session")'
    BY <2>3 DEF Attaching, At
  <2>4. "attached" \in News \ {"failed"}
    BY DEF News
  <2> QED
    BY <1>4, <1>5, <2>1, <2>2, <2>3, <2>4
<1> QED
  BY <1>1, <1>6, <1>7, <1>8, <1>9

\* When nothing is on its way and the dialog was told of every change, its buttons tell
\* whether a session is going on.
THEOREM ButtonsTell == ToolSpec => []ButtonsTellSession
<1>1. ToolInit => ButtonsInv
  <2> SUFFICES ASSUME ToolInit PROVE ButtonsInv
    OBVIOUS
  <2>1. to_tool = <<>> /\ to_ui = <<>> /\ tool = [at |-> "option", option |-> ""]
    BY DEF ToolInit
  <2>2. ~buttons.disconnect
    BY DEF ToolInit
  <2>3. ~Has(<<>>, "-a") /\ ~Has(<<>>, "failed")
    BY EmptySeq DEF Has
  <2>4. ~Attaching /\ ~At("session")
    BY <2>1 DEF Attaching, At
  <2>5. NoAttach
    BY <2>1, <2>3, <2>4, Zenon DEF NoAttach
  <2> QED
    BY <2>2, <2>5 DEF ButtonsInv
<1>2. StepInv /\ ButtonsInv /\ [ToolNext]_toolVars => ButtonsInv'
  <2> SUFFICES ASSUME StepInv, ButtonsInv, [ToolNext]_toolVars PROVE ButtonsInv'
    OBVIOUS
  <2>1. CASE ToolNext
    BY <2>1, DialogKeepsButtons, ReadsKeepButtons, CommandsKeepButtons DEF ToolNext, main
  <2>2. CASE UNCHANGED toolVars
    BY <2>2 DEF toolVars, ButtonsInv, OneAttach, NoAttach, Attaching, At, Has, AtMostOne
  <2> QED
    BY <2>1, <2>2
<1>3. ButtonsInv => ButtonsTellSession
  <2> SUFFICES ASSUME ButtonsInv, ~skewed, ~unseen, ~closed, to_tool = <<>>, to_ui = <<>>,
                      At("option") \/ At("session")
               PROVE  /\ buttons.disconnect <=> At("session")
                      /\ buttons.connect => ~At("session")
    BY DEF ButtonsTellSession
  <2>1. ~Has(<<>>, "-a") /\ ~Has(<<>>, "failed")
    BY EmptySeq DEF Has
  <2>2. ~Attaching
    BY DEF Attaching, At
  <2> QED
    BY <2>1, <2>2, Zenon DEF ButtonsInv, OneAttach, NoAttach
<1> QED
  BY <1>1, <1>2, <1>3, StepIsInvariant, PTL DEF ToolSpec

(***************************************************************************)
(* What the Android application shows.                                     *)
(*                                                                         *)
(* ShownIsSo is not inductive: a word that a program has sent, or a        *)
(* message to the handler, may wait for long before it is acted on, and    *)
(* the reply to a request before it is reported.  ErrorComesFirst follows  *)
(* the one, CompleteIsTrue the other.  Present says where the processes    *)
(* are that the server's state names.                                      *)
(***************************************************************************)

Sockets == Procs \cup {NULL}
Words == {"usbipd start", "err", "complete"}
Stages == {"none", "exec", "connected", "up", "asks", "granted", "refused", "over"}
Message == [what : {"toast", "ready", "open", "bind"}, life : Nat]
Activity == [life : 0..MaxLives, crashed : BOOLEAN, button : BOOLEAN, list : BOOLEAN,
             item : {"RED", "BIND"}, started : SUBSET Programs, told : BOOLEAN]

AppTypes ==
  /\ app \in Activity
  /\ thread \in [Procs -> [at : {"none", "accept", "recv", "over"},
                           sock : Sockets \cup {"bound", "dead"}]]
  /\ \A p \in Procs : thread[p].at = "recv" => thread[p].sock \in Sockets
  /\ sock_usbipd \in Sockets /\ sock_binddriver \in Sockets
  /\ sockfd_listen \in {NULL, "bound", "dead"}
  /\ backlog \in Seq(Procs)
  /\ posted \in Seq(Message)
  /\ proc \in [Procs -> Stages]
  /\ said \in [Procs -> Seq(Words)]
  /\ exported \in BOOLEAN

\* The server is a usbipd that runs, and is there for whoever asks and for what is exported;
\* who it keeps waiting has asked for what is not exported.
Present ==
  /\ serving # NULL => serving \in Procs /\ proc[serving] = "up"
  /\ exported => serving # NULL
  /\ \A p \in Procs : proc[p] = "asks" => serving # NULL
  /\ asked # NULL => asked \in Procs /\ proc[asked] = "asks" /\ ~exported

\* A process was started in its life, once, and says nothing before it is ready.
EachOnce ==
  \A p \in Procs :
    /\ proc[p] # "none" => p[2] <= app.life /\ (p[2] = app.life => p[1] \in app.started)
    /\ proc[p] \notin {"up", "over"} => said[p] = <<>>

Toasts(s) == \E i \in 1..Len(s) : s[i].what = "toast"
NoBind(s) == \A i \in 1..Len(s) : s[i].what # "bind"

\* Before each "open" comes a toast.
OpenAfterToast(s) ==
  \A i \in 1..Len(s) : s[i].what = "open" => \E j \in 1..Len(s) : j < i /\ s[j].what = "toast"

\* A program that tells of a start begins with an error.
Warns(s) == Has(s, "usbipd start") => s[1] = "err"

\* As long as no usbipd has listened and the user was told of no error, the word that one
\* has started comes after the word, or the message, that tells of one.
ErrorComesFirst ==
  serving = NULL /\ "usbipd" \notin gone /\ ~app.told =>
    /\ ~app.list
    /\ OpenAfterToast(posted)
    /\ \A p \in Procs : Warns(said[p]) \/ Toasts(posted)

\* What says that the touch pad is exported comes after.
CompleteIsTrue ==
  ~exported /\ "pad" \notin gone =>
    /\ app.item # "BIND"
    /\ NoBind(posted)
    /\ \A p \in Procs : proc[p] # "granted" /\ ~Has(said[p], "complete")

AppInv == AppTypes /\ Present /\ EachOnce /\ ErrorComesFirst /\ CompleteIsTrue

\* A message posted to the handler after those in s.
LEMMA PostedGrows ==
  ASSUME NEW s \in Seq(Message), NEW m \in Message
  PROVE  LET t == Append(s, m)
         IN  /\ t \in Seq(Message)
             /\ Toasts(s) \/ m.what = "toast" => Toasts(t)
             /\ OpenAfterToast(s) /\ (m.what = "open" => Toasts(s)) => OpenAfterToast(t)
             /\ NoBind(s) /\ m.what # "bind" => NoBind(t)
<1> DEFINE t == Append(s, m)
<1>1. /\ t \in Seq(Message) /\ Len(t) = Len(s) + 1 /\ t[Len(s) + 1] = m /\ Len(s) \in Nat
      /\ \A i \in 1..Len(s) : t[i] = s[i]
  OBVIOUS
<1>2. /\ \A i \in 1..Len(s) : i \in 1..Len(t) /\ i < Len(s) + 1
      /\ \A i \in 1..Len(t) : i \in 1..Len(s) \/ i = Len(s) + 1
      /\ Len(s) + 1 \in 1..Len(t)
  BY <1>1
<1> HIDE DEF t
<1>3. Toasts(s) \/ m.what = "toast" => Toasts(t)
  BY <1>1, <1>2 DEF Toasts
<1>4. ASSUME OpenAfterToast(s), m.what = "open" => Toasts(s) PROVE OpenAfterToast(t)
  BY <1>1, <1>2, <1>4 DEF OpenAfterToast, Toasts
<1>5. NoBind(s) /\ m.what # "bind" => NoBind(t)
  BY <1>1, <1>2 DEF NoBind
<1> QED
  BY <1>1, <1>3, <1>4, <1>5 DEF t

\* The handler has handled the first message of s.
LEMMA PostedShrinks ==
  ASSUME NEW s \in Seq(Message), s # <<>>
  PROVE  LET t == Tail(s)
         IN  /\ t \in Seq(Message) /\ Head(s) \in Message
             /\ Toasts(s) /\ Head(s).what # "toast" => Toasts(t)
             /\ OpenAfterToast(s) => Head(s).what # "open"
             /\ OpenAfterToast(s) /\ Head(s).what # "toast" => OpenAfterToast(t)
             /\ NoBind(s) => Head(s).what # "bind" /\ NoBind(t)
<1> DEFINE t == Tail(s)
<1>1. t \in Seq(Message) /\ IsTail(t, s) /\ Head(s) = s[1] /\ Head(s) \in Message
  BY TailIsTail
<1> HIDE DEF t
<1>2. /\ Len(s) \in Nat \ {0} /\ Len(t) = Len(s) - 1 /\ 1 \in 1..Len(s)
      /\ \A i \in 1..Len(t) : i + 1 \in 1..Len(s) /\ t[i] = s[i + 1]
      /\ \A i \in 1..Len(s) : i # 1 => i - 1 \in 1..Len(t) /\ t[i - 1] = s[i]
  <2>1. Len(s) \in Nat \ {0} /\ Len(t) = Len(s) - 1 /\ \A i \in 1..Len(t) : t[i] = s[i + 1]
    BY <1>1 DEF IsTail
  <2>2. ASSUME NEW i \in 1..Len(s), i # 1 PROVE i - 1 \in 1..Len(t) /\ t[i - 1] = s[i]
    <3>1. i - 1 \in 1..Len(t) /\ (i - 1) + 1 = i
      BY <2>1, <2>2
    <3> QED
      BY <2>1, <3>1
  <2>3. \A i \in 1..Len(t) : i + 1 \in 1..Len(s)
    BY <2>1
  <2> QED
    BY <2>1, <2>2, <2>3
<1>3. Toasts(s) /\ Head(s).what # "toast" => Toasts(t)
  BY <1>1, <1>2 DEF Toasts
<1>4. OpenAfterToast(s) => Head(s).what # "open"
  BY <1>1, <1>2 DEF OpenAfterToast
<1>5. ASSUME OpenAfterToast(s), Head(s).what # "toast", NEW i \in 1..Len(t), t[i].what = "open"
      PROVE  \E j \in 1..Len(t) : j < i /\ t[j].what = "toast"
  <2>1. PICK j \in 1..Len(s) : j < i + 1 /\ s[j].what = "toast"
    BY <1>2, <1>5 DEF OpenAfterToast
  <2>2. j # 1
    BY <1>1, <1>5, <2>1
  <2>3. j - 1 \in 1..Len(t) /\ t[j - 1] = s[j] /\ j - 1 < i
    BY <1>2, <2>1, <2>2
  <2> QED
    BY <2>1, <2>3
<1>6. NoBind(s) => Head(s).what # "bind" /\ NoBind(t)
  BY <1>1, <1>2 DEF NoBind
<1>7. OpenAfterToast(s) /\ Head(s).what # "toast" => OpenAfterToast(t)
  BY <1>5 DEF OpenAfterToast
<1> QED
  BY <1>1, <1>3, <1>4, <1>6, <1>7 DEF t

\* What goes is accounted for, and no request is granted but for what is exported.
Accounted ==
  /\ gone \subseteq gone'
  /\ serving # NULL => serving' # NULL \/ "usbipd" \in gone'
  /\ exported => exported' \/ "pad" \in gone'
  /\ \A p \in Procs : proc'[p] = "granted" => proc[p] = "granted" \/ exported'

\* What the activity shows changes by messages alone: whatever goes on that posts at most a
\* message other than "open" and "bind", and says nothing.
LEMMA SilentKeeps ==
  ASSUME AppInv, AppTypes', Accounted, said' = said, app'.told = app.told,
         app'.list => app.list, app'.item = "BIND" => app.item = "BIND",
         \/ posted' = posted
         \/ \E m \in Message : m.what \in {"toast", "ready"} /\ posted' = Append(posted, m)
  PROVE  ErrorComesFirst' /\ CompleteIsTrue'
<1>1. /\ Toasts(posted) => Toasts(posted')
      /\ OpenAfterToast(posted) => OpenAfterToast(posted')
      /\ NoBind(posted) => NoBind(posted')
  <2>1. CASE posted' = posted
    BY <2>1
  <2>2. CASE \E m \in Message : m.what \in {"toast", "ready"} /\ posted' = Append(posted, m)
    <3>1. PICK m \in Message : m.what \in {"toast", "ready"} /\ posted' = Append(posted, m)
      BY <2>2
    <3>2. posted \in Seq(Message)
      BY DEF AppInv, AppTypes
    <3> QED
      BY <3>1, <3>2, PostedGrows
  <2> QED
    BY <2>1, <2>2
<1>2. ErrorComesFirst'
  BY <1>1 DEF AppInv, Accounted, ErrorComesFirst
<1>3. CompleteIsTrue'
  BY <1>1 DEF AppInv, Accounted, CompleteIsTrue
<1> QED
  BY <1>2, <1>3

\* The activity is opened, again or for the first time.
LEMMA OpenKeeps ==
  ASSUME AppInv, Open
  PROVE  AppInv'
<1> USE DEF AppInv
<1>1. PICK fails \in BOOLEAN, binds \in BOOLEAN, now \in {NULL, "bound", "dead"} :
        /\ sockfd_listen' = now
        /\ posted' = Append(posted, [what |-> IF fails THEN "toast" ELSE "ready",
                                     life |-> app.life + 1])
        /\ thread' = IF fails THEN thread
                     ELSE [p \in Procs |-> IF p \in FirstThreads \X {app.life + 1}
                                           THEN [at |-> "accept", sock |-> now]
                                           ELSE thread[p]]
        /\ now = NULL => fails \/ ~binds
  BY DEF Open, AppTypes
<1>2. /\ app.life < MaxLives /\ app' = [NewActivity(app.life + 1) EXCEPT !.told = app.told]
      /\ sock_usbipd' = sock_usbipd /\ sock_binddriver' = sock_binddriver
      /\ backlog' = backlog /\ proc' = proc /\ said' = said /\ UNCHANGED serverVars
  BY DEF Open, procVars
<1>3. /\ app.life \in Nat /\ app.life + 1 \in 0..MaxLives /\ app' \in Activity
      /\ app'.life = app.life + 1 /\ app'.told = app.told /\ app'.list = FALSE
      /\ app'.item = "RED"
  <2>1. app' = [life |-> app.life + 1, crashed |-> FALSE, button |-> FALSE, list |-> FALSE,
                item |-> "RED", started |-> {}, told |-> app.told]
    BY <1>2, Zenon DEF NewActivity
  <2>2. app.life \in 0..MaxLives /\ app.told \in BOOLEAN
    BY DEF AppTypes, Activity
  <2>3. app.life \in Nat /\ app.life + 1 \in 0..MaxLives
    BY <1>2, <2>2, AppAssumption
  <2> QED
    BY <2>1, <2>2, <2>3 DEF Activity
<1>4. [what |-> IF fails THEN "toast" ELSE "ready", life |-> app.life + 1] \in Message
      /\ [what |-> IF fails THEN "toast" ELSE "ready", life |-> app.life + 1].what
           \in {"toast", "ready"}
  BY <1>3 DEF Message
<1>5. posted' \in Seq(Message)
  BY <1>1, <1>4 DEF AppTypes
<1>6. /\ thread' \in [Procs -> [at : {"none", "accept", "recv", "over"},
                                sock : Sockets \cup {"bound", "dead"}]]
      /\ \A p \in Procs : thread'[p].at = "recv" => thread'[p].sock \in Sockets
  <2>1. CASE fails
    BY <1>1, <2>1 DEF AppTypes
  <2>2. CASE ~fails
    <3>1. thread' = [p \in Procs |-> IF p \in FirstThreads \X {app.life + 1}
                                     THEN [at |-> "accept", sock |-> now] ELSE thread[p]]
      BY <1>1, <2>2
    <3>2. /\ [at |-> "accept", sock |-> now] \in
                 [at : {"none", "accept", "recv", "over"}, sock : Sockets \cup {"bound", "dead"}]
          /\ [at |-> "accept", sock |-> now].at = "accept"
      BY DEF Sockets
    <3> DEFINE new == [at |-> "accept", sock |-> now]
    <3> HIDE DEF new
    <3> QED
      BY <3>1, <3>2 DEF AppTypes, new
  <2> QED
    BY <2>1, <2>2
<1>7. AppTypes'
  BY <1>1, <1>2, <1>3, <1>5, <1>6 DEF AppTypes, serverVars
<1>8. EachOnce'
  BY <1>2, <1>3 DEF EachOnce, Procs, Lives
<1>9. ErrorComesFirst' /\ CompleteIsTrue'
  <2> DEFINE m == [what |-> IF fails THEN "toast" ELSE "ready", life |-> app.life + 1]
  <2> HIDE DEF m
  <2>1. \E mm \in Message : mm.what \in {"toast", "ready"} /\ posted' = Append(posted, mm)
    BY <1>1, <1>4 DEF m
  <2>2. Accounted
    BY <1>2 DEF Accounted, serverVars
  <2> QED
    BY <1>2, <1>3, <1>7, <2>1, <2>2, SilentKeeps
<1>10. Present'
  BY <1>2 DEF Present, serverVars
<1> QED
  BY <1>7, <1>8, <1>9, <1>10

\* A program is started once in a life.
LEMMA StartKeeps ==
  ASSUME AppInv, ClickConnect \/ ClickReady
  PROVE  AppInv'
<1> USE DEF AppInv
<1>1. PICK program \in Programs : Starts(program)
  BY DEF ClickConnect, ClickReady, Programs
<1>2. /\ Alive /\ thread' = thread /\ sock_usbipd' = sock_usbipd
      /\ sock_binddriver' = sock_binddriver /\ sockfd_listen' = sockfd_listen
      /\ backlog' = backlog /\ posted' = posted /\ said' = said /\ UNCHANGED serverVars
  BY DEF ClickConnect, ClickReady, shellVars
<1>3. app \in Activity /\ app.life \in 0..MaxLives /\ MaxLives \in Nat
  BY AppAssumption DEF AppTypes, Activity
<1>4. CASE program \in app.started
  <2>1. app' = [app EXCEPT !.crashed = TRUE] /\ proc' = proc
    BY <1>1, <1>4 DEF Starts
  <2>2. /\ app' \in Activity /\ app'.life = app.life /\ app'.told = app.told
        /\ app'.list = app.list /\ app'.item = app.item /\ app'.started = app.started
    BY <1>3, <2>1 DEF Activity
  <2>3. AppTypes'
    BY <1>2, <2>1, <2>2 DEF AppTypes, serverVars
  <2>4. EachOnce' /\ Present' /\ Accounted
    BY <1>2, <2>1, <2>2 DEF EachOnce, Present, Accounted, serverVars
  <2> QED
    BY <1>2, <2>2, <2>3, <2>4, SilentKeeps
<1>5. CASE program \notin app.started
  <2> DEFINE p == <<program, app.life>>
  <2>1. app' = [app EXCEPT !.started = @ \cup {program}] /\ proc' = [proc EXCEPT ![p] = "exec"]
    BY <1>1, <1>5 DEF Starts
  <2>2. /\ app' \in Activity /\ app'.life = app.life /\ app'.told = app.told
        /\ app'.list = app.list /\ app'.item = app.item
        /\ app'.started = app.started \cup {program}
    BY <1>1, <1>3, <2>1 DEF Activity
  <2>3. p \in Procs /\ p[1] = program /\ p[2] = app.life
    BY <1>2, <1>3 DEF Procs, Lives, Alive
  <2>4. proc[p] = "none"
    BY <1>5, <2>3 DEF EachOnce
  <2> HIDE DEF p
  <2>5. AppTypes'
    BY <1>2, <2>1, <2>2 DEF AppTypes, Stages, serverVars
  <2>6. EachOnce'
    BY <1>2, <1>3, <2>1, <2>2, <2>3, <2>4 DEF EachOnce, AppTypes
  <2>7. Present' /\ Accounted
    BY <1>2, <2>1, <2>3, <2>4 DEF Present, Accounted, AppTypes, serverVars
  <2> QED
    BY <1>2, <2>2, <2>5, <2>6, <2>7, SilentKeeps
<1> QED
  BY <1>4, <1>5

\* The handler shows what it is told: an error before that usbipd has started.
LEMMA HandleKeeps ==
  ASSUME AppInv, HandleMessage
  PROVE  AppInv'
<1> USE DEF AppInv
<1> DEFINE m == Head(posted)
<1>1. /\ posted # <<>> /\ posted' = Tail(posted)
      /\ thread' = thread /\ sock_usbipd' = sock_usbipd
      /\ sock_binddriver' = sock_binddriver /\ sockfd_listen' = sockfd_listen
      /\ backlog' = backlog /\ proc' = proc /\ said' = said /\ serving' = serving
      /\ exported' = exported /\ asked' = asked /\ gone' = gone
  BY DEF HandleMessage, shellVars, procVars, serverVars
<1>2. posted \in Seq(Message) /\ app \in Activity
  BY DEF AppTypes
<1>3. /\ posted' \in Seq(Message) /\ m \in Message
      /\ Toasts(posted) /\ m.what # "toast" => Toasts(posted')
      /\ OpenAfterToast(posted) => m.what # "open"
      /\ OpenAfterToast(posted) /\ m.what # "toast" => OpenAfterToast(posted')
      /\ NoBind(posted) => m.what # "bind" /\ NoBind(posted')
  BY <1>1, <1>2, PostedShrinks
<1>4. \/ app' = app /\ m.what # "toast"
      \/ m.what = "toast" /\ app' = [app EXCEPT !.told = TRUE]
      \/ m.what = "ready" /\ app' = [app EXCEPT !.button = TRUE]
      \/ m.what = "open" /\ app' = [app EXCEPT !.button = FALSE, !.list = TRUE]
      \/ m.what = "bind" /\ app' = [app EXCEPT !.item = "BIND"]
  BY <1>3 DEF HandleMessage, Message
<1> HIDE DEF m
<1>5. /\ app' \in Activity /\ app'.life = app.life /\ app'.started = app.started
      /\ m.what = "toast" => app'.told = TRUE
      /\ m.what # "toast" => app'.told = app.told
      /\ m.what # "open" => app'.list = app.list
      /\ m.what # "bind" => app'.item = app.item
  BY <1>2, <1>4 DEF Activity
<1>6. AppTypes'
  BY <1>1, <1>3, <1>5 DEF AppTypes
<1>7. EachOnce'
  BY <1>1, <1>5 DEF EachOnce
<1>8. ErrorComesFirst'
  <2> SUFFICES ASSUME serving = NULL, "usbipd" \notin gone, ~app'.told
               PROVE  /\ ~app'.list /\ OpenAfterToast(posted')
                      /\ \A p \in Procs : Warns(said[p]) \/ Toasts(posted')
    BY <1>1 DEF ErrorComesFirst
  <2>1. m.what # "toast" /\ ~app.told
    BY <1>5
  <2>2. m.what # "open" /\ ~app.list
    BY <1>3, <2>1 DEF ErrorComesFirst
  <2> QED
    BY <1>3, <1>5, <2>1, <2>2 DEF ErrorComesFirst
<1>9. CompleteIsTrue'
  BY <1>1, <1>3, <1>5 DEF CompleteIsTrue
<1>10. Present'
  BY <1>1 DEF Present
<1> QED
  BY <1>6, <1>7, <1>8, <1>9, <1>10

\* A thread of the application that takes it down changes nothing that is shown.
LEMMA StopKeeps ==
  ASSUME AppInv, NEW p \in Procs, ThreadStops(p)
  PROVE  AppInv'
<1> USE DEF AppInv
<1>1. /\ app' = [app EXCEPT !.crashed = TRUE] /\ posted' = posted /\ backlog' = backlog
      /\ UNCHANGED shellVars /\ UNCHANGED procVars
  BY DEF ThreadStops
<1>2. /\ app' \in Activity /\ app'.life = app.life /\ app'.told = app.told
      /\ app'.list = app.list /\ app'.item = app.item /\ app'.started = app.started
  BY <1>1 DEF AppTypes, Activity
<1>3. AppTypes'
  BY <1>1, <1>2 DEF AppTypes, shellVars, procVars, serverVars
<1>4. EachOnce' /\ Present' /\ Accounted
  BY <1>1, <1>2 DEF EachOnce, Present, Accounted, procVars, serverVars
<1> QED
  BY <1>1, <1>2, <1>3, <1>4, SilentKeeps DEF procVars

\* Whatever leaves the activity, what was said and what is shown alone.
LEMMA QuietKeeps ==
  ASSUME AppInv, AppTypes', Present', Accounted, app' = app, said' = said, posted' = posted,
         \A p \in Procs : proc'[p] # proc[p] =>
            proc[p] # "none" /\ (proc'[p] \notin {"up", "over"} => proc[p] \notin {"up", "over"})
  PROVE  AppInv'
<1>1. EachOnce'
  BY DEF EachOnce, AppInv, AppTypes
<1>2. ErrorComesFirst' /\ CompleteIsTrue'
  BY SilentKeeps
<1> QED
  BY <1>1, <1>2 DEF AppInv

\* A connection is one of the programs'.
LEMMA ListenKeeps ==
  ASSUME AppInv, NEW l \in Lives, Listens(l)
  PROVE  AppInv'
<1> USE DEF AppInv
<1> DEFINE Thread == [at : {"none", "accept", "recv", "over"},
                      sock : Sockets \cup {"bound", "dead"}]
<1>1. /\ app' = app /\ said' = said /\ exported' = exported /\ Present' /\ Accounted
      /\ posted' = posted /\ proc' = proc /\ sockfd_listen' = sockfd_listen
      /\ \/ sock_usbipd' = sock_usbipd
         \/ sock_usbipd' = NULL
         \/ backlog # <<>> /\ sock_usbipd' = Head(backlog)
      /\ \/ sock_binddriver' = sock_binddriver
         \/ sock_binddriver' = NULL
         \/ backlog # <<>> /\ sock_binddriver' = Head(backlog)
      /\ backlog' = backlog \/ (backlog # <<>> /\ backlog' = Tail(backlog))
  <2>1. CASE ListenUsbipd(l)
    BY <2>1 DEF ListenUsbipd, procVars, serverVars, Present, Accounted
  <2>2. CASE ListenBinddriver(l)
    BY <2>2 DEF ListenBinddriver, procVars, serverVars, Present, Accounted
  <2> QED
    BY <2>1, <2>2 DEF Listens
<1>2. backlog \in Seq(Procs) /\ backlog' \in Seq(Procs)
      /\ (backlog # <<>> => Head(backlog) \in Procs)
  <2>1. backlog \in Seq(Procs)
    BY DEF AppTypes
  <2>2. backlog # <<>> => Head(backlog) \in Procs /\ Tail(backlog) \in Seq(Procs)
    BY <2>1
  <2> QED
    BY <1>1, <2>1, <2>2
<1>3. sock_usbipd' \in Sockets /\ sock_binddriver' \in Sockets
  BY <1>1, <1>2 DEF AppTypes, Sockets
<1>4. ASSUME NEW me \in Procs,
             \/ thread' = [thread EXCEPT ![me] = Over]
             \/ backlog # <<>> /\ thread' = [thread EXCEPT ![me] = [at |-> "recv", sock |-> Head(backlog)]]
      PROVE  /\ thread' \in [Procs -> Thread]
             /\ \A p \in Procs : thread'[p].at = "recv" => thread'[p].sock \in Sockets
  <2>1. thread \in [Procs -> Thread]
        /\ \A p \in Procs : thread[p].at = "recv" => thread[p].sock \in Sockets
    BY DEF AppTypes
  <2>2. CASE thread' = [thread EXCEPT ![me] = Over]
    <3>1. Over \in Thread /\ Over.at = "over"
      BY DEF Over, Sockets
    <3> HIDE DEF Thread
    <3> QED
      BY <2>1, <2>2, <3>1
  <2>3. CASE backlog # <<>> /\ thread' = [thread EXCEPT ![me] = [at |-> "recv", sock |-> Head(backlog)]]
    <3> DEFINE new == [at |-> "recv", sock |-> Head(backlog)]
    <3>1. new \in Thread /\ new.sock \in Sockets
      BY <1>2, <2>3 DEF Sockets
    <3> HIDE DEF Thread, new
    <3>2. thread' = [thread EXCEPT ![me] = new]
      BY <2>3 DEF new
    <3> QED
      BY <2>1, <3>1, <3>2
  <2> QED
    BY <1>4, <2>2, <2>3
<1>5. CASE ListenBinddriver(l)
  <2> DEFINE me == <<"bind_driver", l>>
  <2>1. me \in Procs
    BY DEF Procs, Programs
  <2>2. \/ thread' = [thread EXCEPT ![me] = Over]
        \/ backlog # <<>> /\ thread' = [thread EXCEPT ![me] = [at |-> "recv", sock |-> Head(backlog)]]
    BY <1>5 DEF ListenBinddriver
  <2> HIDE DEF me
  <2>3. AppTypes'
    BY <1>1, <1>2, <1>3, <1>4, <2>1, <2>2 DEF AppTypes
  <2> QED
    BY <1>1, <2>3, QuietKeeps
<1>6. CASE ListenUsbipd(l)
  <2> DEFINE me == <<"usbipd", l>>
             other == <<"bind_driver", l>>
             first == [at |-> "recv", sock |-> Head(backlog)]
             second == [at |-> "accept", sock |-> sockfd_listen]
  <2>1. me \in Procs /\ other \in Procs
    BY DEF Procs, Programs
  <2>2. CASE thread' = [thread EXCEPT ![me] = Over]
    <3> HIDE DEF me
    <3>1. AppTypes'
      BY <1>1, <1>2, <1>3, <1>4, <2>1, <2>2 DEF AppTypes
    <3> QED
      BY <1>1, <3>1, QuietKeeps
  <2>3. CASE backlog # <<>> /\ thread' = [thread EXCEPT ![me] = first, ![other] = second]
    <3>1. first \in Thread /\ first.sock \in Sockets
      BY <1>2, <2>3 DEF Sockets
    <3>2. second \in Thread /\ second.at = "accept"
      BY DEF Sockets, AppTypes
    <3>3. thread \in [Procs -> Thread]
          /\ \A p \in Procs : thread[p].at = "recv" => thread[p].sock \in Sockets
      BY DEF AppTypes
    <3> HIDE DEF me, other, first, second, Thread
    <3>4. thread' \in [Procs -> Thread]
          /\ \A p \in Procs : thread'[p].at = "recv" => thread'[p].sock \in Sockets
      BY <2>1, <2>3, <3>1, <3>2, <3>3
    <3>5. AppTypes'
      BY <1>1, <1>2, <1>3, <3>4 DEF AppTypes, Thread
    <3> QED
      BY <1>1, <3>5, QuietKeeps
  <2> QED
    BY <1>6, <2>2, <2>3 DEF ListenUsbipd
<1> QED
  BY <1>5, <1>6 DEF Listens

\* What is left of a program's words once the first k are received.
LEMMA WordsLeft ==
  ASSUME NEW s \in Seq(Words), NEW k \in 1..Len(s)
  PROVE  LET left == SubSeq(s, k + 1, Len(s))
         IN  /\ left \in Seq(Words) /\ Head(s) = s[1] /\ Has(s, Head(s))
             /\ \A w \in Words : Has(left, w) => Has(s, w)
<1> DEFINE left == SubSeq(s, k + 1, Len(s))
<1>1. left \in Seq(Words) /\ Head(s) = s[1]
  BY SubSeqIsTail
<1>2. k \in Nat /\ k + 1 \in Nat /\ Len(s) \in Nat /\ 1 \in 1..Len(s)
  OBVIOUS
<1>3. ASSUME NEW i \in 1..Len(left) PROVE \E j \in 1..Len(s) : left[i] = s[j]
  <2>1. Len(left) = Len(s) - k /\ left[i] = s[k + i] /\ k + i \in 1..Len(s)
    BY <1>2, <1>3
  <2> QED
    BY <2>1
<1> HIDE DEF left
<1>4. Has(s, s[1])
  BY <1>2 DEF Has
<1>5. \A w \in Words : Has(left, w) => Has(s, w)
  BY <1>3 DEF Has
<1> QED
  BY <1>1, <1>4, <1>5 DEF left

\* A thread of the application receives a program's words.
LEMMA ReceiveKeeps ==
  ASSUME AppInv, NEW program \in Programs, NEW l \in Lives, Receive(program, l)
  PROVE  AppInv'
<1> USE DEF AppInv
<1> DEFINE me == <<program, l>>
           from == thread[me].sock
           next == IF program = "usbipd" THEN sock_usbipd ELSE sock_binddriver
           Thread == [at : {"none", "accept", "recv", "over"},
                      sock : Sockets \cup {"bound", "dead"}]
<1>1. /\ app' = app /\ exported' = exported /\ serving' = serving /\ proc' = proc
      /\ asked' = asked /\ gone' = gone
      /\ sockfd_listen' = sockfd_listen /\ sock_usbipd' = sock_usbipd
      /\ sock_binddriver' = sock_binddriver /\ backlog' = backlog
      /\ Alive /\ thread[me].at = "recv"
  BY DEF Receive, serverVars
<1>0. Present' /\ Accounted
  BY <1>1 DEF Present, Accounted
<1>2. me \in Procs /\ from \in Sockets /\ next \in Sockets /\ thread \in [Procs -> Thread]
  <2>1. me \in Procs
    BY DEF Procs
  <2> QED
    BY <1>1, <2>1 DEF AppTypes
<1>3. ASSUME \/ thread' = [thread EXCEPT ![me].sock = next]
             \/ thread' = [thread EXCEPT ![me] = Over]
      PROVE  /\ thread' \in [Procs -> Thread]
             /\ \A p \in Procs : thread'[p].at = "recv" => thread'[p].sock \in Sockets
  <2>1. Over \in Thread /\ Over.at = "over"
    BY DEF Over, Sockets
  <2>5. me \in Procs /\ next \in Sockets /\ thread \in [Procs -> Thread]
    BY <1>2
  <2> HIDE DEF me, next, from
  <2>2. \A p \in Procs : thread[p].at = "recv" => thread[p].sock \in Sockets
    BY DEF AppTypes
  <2>3. CASE thread' = [thread EXCEPT ![me].sock = next]
    <3> QED
      BY <2>2, <2>3, <2>5
  <2>4. CASE thread' = [thread EXCEPT ![me] = Over]
    <3> HIDE DEF Thread
    <3> QED
      BY <2>1, <2>2, <2>4, <2>5
  <2> QED
    BY <1>3, <2>3, <2>4
<1>4. CASE thread' = [thread EXCEPT ![me] = Over] /\ said' = said /\ posted' = posted
  <2>1. AppTypes'
    BY <1>1, <1>3, <1>4 DEF AppTypes
  <2> HIDE DEF me, from, next
  <2> QED
    BY <1>0, <1>1, <1>4, <2>1, QuietKeeps
<1>5. CASE /\ from # NULL /\ said[from] # <<>>
           /\ \E k \in 1..Len(said[from]) :
                said' = [said EXCEPT ![from] = SubSeq(@, k + 1, Len(@))]
           /\ Acts(Head(said[from]), program)
           /\ thread' = [thread EXCEPT ![me].sock = next]
  <2>1. PICK k \in 1..Len(said[from]) :
               said' = [said EXCEPT ![from] = SubSeq(said[from], k + 1, Len(said[from]))]
    BY <1>5
  <2>2. from \in Procs /\ said[from] \in Seq(Words) /\ said[from] # <<>>
    BY <1>2, <1>5 DEF Sockets, AppTypes
  <2> DEFINE s == said[from]
             left == SubSeq(s, k + 1, Len(s))
             word == Head(s)
  <2>3. /\ left \in Seq(Words) /\ word = s[1] /\ Has(s, word)
        /\ Has(left, "usbipd start") => Has(s, "usbipd start")
        /\ Has(left, "complete") => Has(s, "complete")
    BY <2>2, WordsLeft DEF Words
  <2>4. Acts(word, program) /\ thread' = [thread EXCEPT ![me].sock = next]
    BY <1>5
  <2>5. said' = [said EXCEPT ![from] = left]
    BY <2>1
  <2> HIDE DEF left, word, s, from
  <2>6. /\ said' \in [Procs -> Seq(Words)] /\ said'[from] = left
        /\ \A p \in Procs : p # from => said'[p] = said[p]
    BY <2>2, <2>3, <2>5 DEF AppTypes
  <2>7. \/ posted' = posted /\ word # "err"
        \/ word = "err" /\ Post("toast")
        \/ word = "usbipd start" /\ Post("open")
        \/ word = "complete" /\ Post("bind")
    BY <2>4 DEF Acts, Understands
  <2>8. \A w \in {"toast", "open", "bind"} :
          LET m == [what |-> w, life |-> app.life] IN m \in Message /\ m.what = w
    BY AppAssumption DEF Message, AppTypes, Activity
  <2>9. posted \in Seq(Message)
    BY DEF AppTypes
  <2>10. ASSUME NEW w \in {"toast", "open", "bind"}, Post(w)
         PROVE  /\ posted' \in Seq(Message)
                /\ Toasts(posted) \/ w = "toast" => Toasts(posted')
                /\ OpenAfterToast(posted) /\ (w = "open" => Toasts(posted)) =>
                     OpenAfterToast(posted')
                /\ NoBind(posted) /\ w # "bind" => NoBind(posted')
    <3> DEFINE m == [what |-> w, life |-> app.life]
    <3>1. m \in Message /\ m.what = w /\ posted' = Append(posted, m)
      BY <2>8, <2>10 DEF Post
    <3> HIDE DEF m
    <3> QED
      BY <2>9, <3>1, PostedGrows
  <2>11. posted' \in Seq(Message) /\ (Toasts(posted) => Toasts(posted'))
    BY <2>7, <2>9, <2>10
  <2>12. AppTypes'
    BY <1>1, <1>3, <2>4, <2>6, <2>11 DEF AppTypes
  <2>13. EachOnce'
    BY <1>1, <2>2, <2>6 DEF EachOnce, AppTypes, s
  <2>14. ErrorComesFirst'
    <3> SUFFICES ASSUME serving = NULL, "usbipd" \notin gone, ~app.told
                 PROVE  /\ ~app.list /\ OpenAfterToast(posted')
                        /\ \A p \in Procs : Warns(said'[p]) \/ Toasts(posted')
      BY <1>1 DEF ErrorComesFirst
    <3>1. /\ ~app.list /\ OpenAfterToast(posted)
          /\ \A p \in Procs : Warns(said[p]) \/ Toasts(posted)
      BY DEF ErrorComesFirst
    <3>2. Has(s, "usbipd start") => word = "err" \/ Toasts(posted)
      BY <2>2, <2>3, <3>1 DEF s, Warns
    <3>3. word = "usbipd start" => Toasts(posted)
      BY <2>3, <3>2
    <3>4. OpenAfterToast(posted')
      BY <2>7, <2>10, <3>1, <3>3
    <3>5. word = "err" => Toasts(posted')
      BY <2>7, <2>10
    <3>6. ASSUME NEW p \in Procs PROVE Warns(said'[p]) \/ Toasts(posted')
      <4>1. CASE p = from
        BY <2>3, <2>6, <2>11, <3>2, <3>5, <4>1 DEF Warns
      <4>2. CASE p # from
        BY <2>6, <2>11, <3>1, <4>2
      <4> QED
        BY <4>1, <4>2
    <3> QED
      BY <3>1, <3>4, <3>6
  <2>15. CompleteIsTrue'
    <3> SUFFICES ASSUME ~exported, "pad" \notin gone
                 PROVE  /\ app.item # "BIND" /\ NoBind(posted')
                        /\ \A p \in Procs : proc[p] # "granted" /\ ~Has(said'[p], "complete")
      BY <1>1 DEF CompleteIsTrue
    <3>1. /\ app.item # "BIND" /\ NoBind(posted)
          /\ \A p \in Procs : proc[p] # "granted" /\ ~Has(said[p], "complete")
      BY DEF CompleteIsTrue
    <3>2. ~Has(s, "complete") /\ word # "complete"
      BY <2>2, <2>3, <3>1 DEF s
    <3>3. NoBind(posted')
      BY <2>7, <2>10, <3>1, <3>2
    <3>4. \A p \in Procs : ~Has(said'[p], "complete")
      BY <2>3, <2>6, <3>1, <3>2
    <3> QED
      BY <3>1, <3>3, <3>4
  <2> QED
    BY <1>0, <2>12, <2>13, <2>14, <2>15
<1> QED
  <2>1. \/ /\ from # NULL /\ said[from] # <<>>
           /\ \E k \in 1..Len(said[from]) :
                said' = [said EXCEPT ![from] = SubSeq(@, k + 1, Len(@))]
           /\ Acts(Head(said[from]), program)
           /\ thread' = [thread EXCEPT ![me].sock = next]
        \/ thread' = [thread EXCEPT ![me] = Over] /\ said' = said /\ posted' = posted
    BY DEF Receive
  <2> QED
    BY <1>4, <1>5, <2>1

\* What has something has a first element, and one element is all that a sequence of one has.
LEMMA FirstOf ==
  ASSUME NEW s, NEW m, Len(s) \in Nat, Has(s, m)
  PROVE  1 \in 1..Len(s) /\ (Len(s) = 1 => s[1] = m)
<1>1. PICK i \in 1..Len(s) : s[i] = m
  BY DEF Has
<1>2. 1 \in 1..Len(s) /\ (Len(s) = 1 => i = 1)
  BY <1>1
<1> QED
  BY <1>1, <1>2

\* Words said at last.
LEMMA WordsSaid ==
  ASSUME NEW s \in Seq(Words), NEW words \in Seq(Words), s = <<>> \/ words = <<"err">>
  PROVE  LET t == s \o words
         IN  /\ t \in Seq(Words)
             /\ Has(t, "complete") => Has(s, "complete") \/ Has(words, "complete")
             /\ Warns(s) /\ Warns(words) => Warns(t)
<1> DEFINE t == s \o words
<1>1. t \in Seq(Words) /\ IsConcat(t, s, words)
  BY ConcatIsConcat
<1> HIDE DEF t
<1>2. \A w \in Words : Has(t, w) <=> Has(s, w) \/ Has(words, w)
  BY <1>1, ConcatHas
<1>3. CASE s = <<>>
  <2>1. Len(s) = 0
    BY <1>3
  <2>2. Len(words) \in Nat /\ \A i \in 1..Len(words) : t[i] = words[i]
    BY <1>1, <2>1 DEF IsConcat
  <2>5. ~Has(s, "usbipd start")
    BY <2>1 DEF Has
  <2>3. Has(t, "usbipd start") => Has(words, "usbipd start") /\ t[1] = words[1]
    BY <1>2, <2>2, <2>5, FirstOf DEF Words
  <2>4. Warns(words) => Warns(t)
    BY <2>3 DEF Warns
  <2> QED
    BY <1>1, <1>2, <2>4 DEF t, Words
<1>4. CASE words = <<"err">>
  <2>1. Len(words) = 1 /\ words[1] = "err"
    BY <1>4
  <2>2. ~Has(words, "usbipd start")
    <3>1. Len(words) \in Nat /\ words[1] # "usbipd start"
      BY <2>1
    <3> QED
      BY <2>1, <3>1, FirstOf, Zenon
  <2>3. Has(s, "usbipd start") => t[1] = s[1]
    BY <1>1, FirstOf DEF IsConcat
  <2>4. Warns(s) => Warns(t)
    BY <1>2, <2>2, <2>3 DEF Warns, Words
  <2> QED
    BY <1>1, <1>2, <2>4 DEF t, Words
<1> QED
  BY <1>3, <1>4

\* What single words are, and what usbipd says when it starts.
LEMMA SomeWords ==
  /\ \A w \in Words : <<w>> \in Seq(Words) /\ (Has(<<w>>, "complete") => w = "complete")
                     /\ (w # "usbipd start" => Warns(<<w>>))
  /\ \A ok \in BOOLEAN : /\ StartWords(ok) \in Seq(Words) /\ ~Has(StartWords(ok), "complete")
                         /\ ok \/ Warns(StartWords(ok))
<1>1. ASSUME NEW w \in Words
      PROVE  <<w>> \in Seq(Words) /\ \A m : Has(<<w>>, m) => m = w
  <2>1. <<w>> \in Seq(Words) /\ Len(<<w>>) = 1 /\ <<w>>[1] = w
    OBVIOUS
  <2> QED
    BY <2>1, FirstOf
<1>2. ASSUME NEW w \in Words
      PROVE  /\ <<w>> \in Seq(Words) /\ (Has(<<w>>, "complete") => w = "complete")
             /\ w # "usbipd start" => Warns(<<w>>)
  BY <1>1 DEF Warns
<1> DEFINE two == <<"err", "usbipd start">>
<1>3. two \in Seq(Words) /\ Len(two) = 2 /\ two[1] = "err" /\ two[2] = "usbipd start"
  BY DEF Words
<1> HIDE DEF two
<1>4. two \in Seq(Words) /\ ~Has(two, "complete") /\ Warns(two)
  <2>1. \A i \in 1..2 : i = 1 \/ i = 2
    OBVIOUS
  <2>2. \A i \in 1..Len(two) : i = 1 \/ i = 2
    BY <1>3, <2>1, Zenon
  <2> QED
    BY <1>3, <2>2 DEF Has, Warns
<1>5. ASSUME NEW ok \in BOOLEAN
      PROVE  /\ StartWords(ok) \in Seq(Words) /\ ~Has(StartWords(ok), "complete")
             /\ ok \/ Warns(StartWords(ok))
  <2>1. StartWords(ok) = IF ok THEN <<"usbipd start">> ELSE two
    BY Zenon DEF StartWords, two
  <2>2. "usbipd start" \in Words /\ "usbipd start" # "complete"
    BY DEF Words
  <2> QED
    BY <1>2, <1>4, <2>1, <2>2
<1> QED
  BY <1>2, <1>5

\* A program says something, of an error or of what is so.
LEMMA SayingKeeps ==
  ASSUME AppInv, AppTypes', Present', Accounted, NEW p \in Procs, NEW words \in Seq(Words),
         Says(p, words), said[p] = <<>> \/ words = <<"err">>,
         app' = app, posted' = posted, proc'[p] \in {"up", "over"}, proc[p] # "none",
         \A q \in Procs : proc'[q] # proc[q] =>
            proc[q] # "none" /\ (proc'[q] \notin {"up", "over"} => proc[q] \notin {"up", "over"}),
         Warns(words) \/ serving' # NULL,
         Has(words, "complete") => exported' \/ "pad" \in gone'
  PROVE  AppInv'
<1> USE DEF AppInv
<1>1. said \in [Procs -> Seq(Words)] /\ said[p] \in Seq(Words)
  BY DEF AppTypes
<1> DEFINE t == said[p] \o words
<1>2. /\ t \in Seq(Words)
      /\ Has(t, "complete") => Has(said[p], "complete") \/ Has(words, "complete")
      /\ Warns(said[p]) /\ Warns(words) => Warns(t)
  BY <1>1, WordsSaid
<1>3. said'[p] = t /\ \A q \in Procs : q # p => said'[q] = said[q]
  BY <1>1 DEF Says
<1> HIDE DEF t
<1>4. EachOnce'
  <2> SUFFICES ASSUME NEW q \in Procs
               PROVE  /\ proc'[q] # "none" =>
                           q[2] <= app.life /\ (q[2] = app.life => q[1] \in app.started)
                      /\ proc'[q] \notin {"up", "over"} => said'[q] = <<>>
    BY DEF EachOnce
  <2> QED
    BY <1>3 DEF EachOnce
<1>5. ErrorComesFirst'
  <2> SUFFICES ASSUME serving' = NULL, "usbipd" \notin gone', ~app.told
               PROVE  /\ ~app.list /\ OpenAfterToast(posted)
                      /\ \A q \in Procs : Warns(said'[q]) \/ Toasts(posted)
    BY DEF ErrorComesFirst
  <2>1. /\ ~app.list /\ OpenAfterToast(posted)
        /\ \A q \in Procs : Warns(said[q]) \/ Toasts(posted)
    BY DEF ErrorComesFirst, Accounted
  <2> QED
    BY <1>2, <1>3, <2>1
<1>6. CompleteIsTrue'
  <2> SUFFICES ASSUME ~exported', "pad" \notin gone'
               PROVE  /\ app.item # "BIND" /\ NoBind(posted)
                      /\ \A q \in Procs : proc'[q] # "granted" /\ ~Has(said'[q], "complete")
    BY DEF CompleteIsTrue
  <2>1. /\ app.item # "BIND" /\ NoBind(posted)
        /\ \A q \in Procs : proc[q] # "granted" /\ ~Has(said[q], "complete")
    BY DEF CompleteIsTrue, Accounted
  <2> QED
    BY <1>2, <1>3, <2>1 DEF Accounted
<1> QED
  BY <1>4, <1>5, <1>6

\* One process steps on, from where neither the server nor a request depends on it.
LEMMA StepsPresent ==
  ASSUME AppInv, NEW p \in Procs, NEW to \in Stages, Steps(p, to),
         proc[p] \notin {"none", "up", "over"}, to # "none",
         serving' = serving \/ (serving' = p /\ to = "up"),
         asked' = NULL \/ (asked' = asked /\ proc[p] # "asks" /\ exported' = exported),
         exported' => exported \/ proc[p] = "asks", to = "asks" => serving # NULL
  PROVE  /\ Present' /\ proc' \in [Procs -> Stages] /\ proc'[p] = to
         /\ \A q \in Procs : q # p => proc'[q] = proc[q]
<1>1. proc \in [Procs -> Stages]
  BY DEF AppInv, AppTypes
<1>2. /\ proc' \in [Procs -> Stages] /\ proc'[p] = to
      /\ \A q \in Procs : q # p => proc'[q] = proc[q]
  BY <1>1 DEF Steps
<1>3. Present'
  BY <1>2, AppAssumption DEF Present, AppInv
<1> QED
  BY <1>2, <1>3

\* The end of a usbipd, of which its word or its silence is all that the application learns.
LEMMA EndsKeep ==
  ASSUME AppInv, NEW p \in Procs, proc[p] \in {"connected", "up"}, Ends(p),
         proc[p] = "up" \/ p # serving,
         said' = said \/ (proc[p] = "up" /\ Says(p, <<"err">>)),
         app' = app, posted' = posted, backlog' = backlog, UNCHANGED shellVars
  PROVE  AppInv'
<1>1. proc \in [Procs -> Stages] /\ said \in [Procs -> Seq(Words)] /\ exported \in BOOLEAN
  BY DEF AppInv, AppTypes
<1>2. /\ proc' \in [Procs -> Stages] /\ proc'[p] = "over"
      /\ \A q \in Procs : q # p =>
           proc'[q] = proc[q] \/ (proc[q] = "asks" /\ proc'[q] = "refused" /\ serving' = NULL)
  <2>1. CASE p # serving
    BY <1>1, <2>1 DEF Ends, Steps, Stages
  <2>2. CASE p = serving
    <3>1. proc' = [q \in Procs |-> IF q = p THEN "over"
                                  ELSE IF proc[q] = "asks" THEN "refused" ELSE proc[q]]
          /\ serving' = NULL
      BY <2>2 DEF Ends, Replied
    <3> QED
      BY <1>1, <3>1 DEF Stages
  <2> QED
    BY <2>1, <2>2
<1>3. /\ exported' \in BOOLEAN
      /\ \/ serving' = serving /\ asked' = asked /\ exported' = exported
         \/ serving' = NULL /\ asked' = NULL /\ exported' = FALSE
      /\ serving' = NULL /\ serving # NULL => p = serving
      /\ p = serving => serving' = NULL /\ asked' = NULL
  BY <1>1 DEF Ends, serverVars
<1>4. Present'
  <2>1. p # asked /\ p # NULL
    BY AppAssumption DEF AppInv, Present
  <2>2. CASE p = serving
    <3>1. /\ serving' = NULL /\ asked' = NULL /\ exported' = FALSE
      BY <1>3, <2>2, <2>1
    <3>2. \A q \in Procs : proc'[q] # "asks"
      BY <2>2 DEF Ends, Replied
    <3> QED
      BY <3>1, <3>2 DEF Present
  <2>3. CASE p # serving
    <3>1. proc' = [proc EXCEPT ![p] = "over"] /\ UNCHANGED serverVars
      BY <2>3 DEF Ends, Steps
    <3> QED
      BY <1>1, <2>1, <2>3, <3>1 DEF AppInv, Present, serverVars
  <2> QED
    BY <2>2, <2>3
<1>5. Accounted
  <2>1. /\ gone \subseteq gone' /\ (serving # NULL => serving' # NULL \/ "usbipd" \in gone')
        /\ exported => exported' \/ "pad" \in gone'
    BY DEF Ends, serverVars
  <2> QED
    BY <1>2, <2>1 DEF Accounted
<1>6. ASSUME NEW q \in Procs, proc'[q] # proc[q]
      PROVE  proc[q] # "none" /\ (proc'[q] \notin {"up", "over"} => proc[q] \notin {"up", "over"})
  BY <1>2, <1>6
<1>7. CASE said' = said
  <2>1. AppTypes'
    BY <1>1, <1>2, <1>3, <1>7 DEF AppInv, AppTypes, shellVars
  <2> QED
    BY <1>4, <1>5, <1>6, <1>7, <2>1, QuietKeeps
<1>8. CASE proc[p] = "up" /\ Says(p, <<"err">>)
  <2>1. <<"err">> \in Seq(Words) /\ ~Has(<<"err">>, "complete") /\ Warns(<<"err">>)
    <3>1. "err" \in Words /\ "err" # "complete" /\ "err" # "usbipd start"
      BY DEF Words
    <3> QED
      BY <3>1, SomeWords
  <2>2. said' \in [Procs -> Seq(Words)]
    <3>1. said[p] \o <<"err">> \in Seq(Words)
      BY <1>1, <2>1, ConcatProperties
    <3> QED
      BY <1>1, <1>8, <3>1 DEF Says
  <2>3. AppTypes'
    BY <1>2, <1>3, <2>2 DEF AppInv, AppTypes, shellVars
  <2> QED
    BY <1>2, <1>4, <1>5, <1>6, <1>8, <2>1, <2>3, SayingKeeps
<1> QED
  BY <1>7, <1>8

\* A program connects to the application.
LEMMA ConnectKeeps ==
  ASSUME AppInv, NEW p \in Procs, ConnectToApp(p)
  PROVE  AppInv'
<1>1. /\ app' = app /\ posted' = posted /\ said' = said /\ UNCHANGED shellVars
      /\ UNCHANGED serverVars
      /\ proc[p] = "exec" /\ (backlog' = backlog \/ backlog' = Append(backlog, p))
  BY DEF ConnectToApp
<1>2. PICK to \in {"connected", "over"} : Steps(p, to)
  BY DEF ConnectToApp
<1>3. backlog' \in Seq(Procs)
  <2>1. backlog \in Seq(Procs)
    BY DEF AppInv, AppTypes
  <2> QED
    BY <1>1, <2>1
<1>4. /\ Present' /\ proc' \in [Procs -> Stages] /\ proc'[p] = to
      /\ \A q \in Procs : q # p => proc'[q] = proc[q]
  BY <1>1, <1>2, StepsPresent DEF Stages, serverVars
<1>5. AppTypes'
  BY <1>1, <1>3, <1>4 DEF AppInv, AppTypes, shellVars, serverVars
<1>6. Accounted
  BY <1>1, <1>4 DEF Accounted, serverVars
<1> QED
  BY <1>1, <1>4, <1>5, <1>6, QuietKeeps

\* A usbipd that cannot listen says "err" before it says that it has started.
LEMMA StartsKeeps ==
  ASSUME AppInv, NEW l \in Lives, UsbipdStarts(l)
  PROVE  AppInv'
<1> DEFINE p == <<"usbipd", l>>
<1>1. p \in Procs /\ p # NULL
  <2>1. p \in Procs
    BY DEF Procs, Programs
  <2> QED
    BY <2>1, AppAssumption
<1>2. PICK ok \in BOOLEAN :
        /\ serving' = (IF ok THEN p ELSE serving) /\ Says(p, StartWords(ok))
        /\ serving # NULL => ~ok
  BY DEF UsbipdStarts
<1>3. /\ app' = app /\ UNCHANGED shellVars /\ backlog' = backlog /\ posted' = posted
      /\ exported' = exported /\ asked' = asked /\ gone' = gone
      /\ proc[p] = "connected" /\ Steps(p, "up")
  BY DEF UsbipdStarts
<1> HIDE DEF p
<1>4. /\ Present' /\ proc' \in [Procs -> Stages] /\ proc'[p] = "up"
      /\ \A q \in Procs : q # p => proc'[q] = proc[q]
  <2>1. serving' = serving \/ serving' = p
    BY <1>2
  <2>2. "up" \in Stages
    BY DEF Stages
  <2> QED
    BY <1>1, <1>3, <2>1, <2>2, StepsPresent
<1>5. /\ StartWords(ok) \in Seq(Words) /\ ~Has(StartWords(ok), "complete")
      /\ ok \/ Warns(StartWords(ok))
  BY SomeWords
<1>6. said[p] = <<>> /\ said' \in [Procs -> Seq(Words)]
  <2>1. said[p] = <<>> /\ said[p] \in Seq(Words) /\ said \in [Procs -> Seq(Words)]
    BY <1>1, <1>3 DEF AppInv, EachOnce, AppTypes
  <2>2. said[p] \o StartWords(ok) \in Seq(Words)
    BY <1>5, <2>1, ConcatProperties
  <2> QED
    BY <1>1, <1>2, <2>1, <2>2 DEF Says
<1>7. AppTypes' /\ Accounted
  BY <1>2, <1>3, <1>4, <1>6 DEF AppInv, AppTypes, Accounted, shellVars
<1> QED
  BY <1>1, <1>2, <1>3, <1>4, <1>5, <1>6, <1>7, SayingKeeps

\* A usbipd ends by itself.
LEMMA UsbipdEndKeeps ==
  ASSUME AppInv, NEW l \in Lives, UsbipdEnds(l)
  PROVE  AppInv'
<1> DEFINE p == <<"usbipd", l>>
<1>1. p \in Procs /\ p # NULL
  <2>1. p \in Procs
    BY DEF Procs, Programs
  <2> QED
    BY <2>1, AppAssumption
<1>2. /\ proc[p] \in {"connected", "up"} /\ Ends(p)
      /\ said' = said \/ (proc[p] = "up" /\ Says(p, <<"err">>))
      /\ app' = app /\ posted' = posted /\ backlog' = backlog /\ UNCHANGED shellVars
  BY DEF UsbipdEnds
<1> HIDE DEF p
<1>3. proc[p] = "up" \/ p # serving
  BY <1>1 DEF AppInv, Present
<1> QED
  BY <1>1, <1>2, <1>3, EndsKeep

\* The server's end takes the application unawares.
LEMMA ServerEndKeeps ==
  ASSUME AppInv, serving # NULL, Ends(serving), said' = said, app' = app, posted' = posted,
         backlog' = backlog, UNCHANGED shellVars
  PROVE  AppInv'
<1>1. serving \in Procs /\ proc[serving] = "up"
  BY DEF AppInv, Present
<1> QED
  BY <1>1, EndsKeep

\* A step of usbip_bind_driver, or of usbipd for it, of which nothing is said yet.
LEMMA RequestKeeps ==
  ASSUME AppInv, NEW p \in Procs, NEW to \in {"asks", "granted", "refused"}, Steps(p, to),
         proc[p] \in {"connected", "asks"},
         asked' = NULL \/ (asked' = asked /\ proc[p] # "asks"),
         exported' \in BOOLEAN, exported => exported', to = "granted" => exported',
         exported' => exported \/ proc[p] = "asks", to = "asks" => serving # NULL,
         asked' = NULL \/ exported' = exported,
         serving' = serving, gone' = gone, said' = said, app' = app, posted' = posted,
         backlog' = backlog, UNCHANGED shellVars
  PROVE  AppInv'
<1>1. /\ Present' /\ proc' \in [Procs -> Stages] /\ proc'[p] = to
      /\ \A q \in Procs : q # p => proc'[q] = proc[q]
  BY StepsPresent DEF Stages
<1>2. AppTypes' /\ Accounted
  BY <1>1 DEF AppInv, AppTypes, Accounted, shellVars
<1> QED
  BY <1>1, <1>2, QuietKeeps

\* The program usbip_bind_driver asks usbipd to export the touch pad.
LEMMA AskKeeps ==
  ASSUME AppInv, NEW l \in Lives, AskExport(l)
  PROVE  AppInv'
<1> DEFINE p == <<"bind_driver", l>>
<1>1. p \in Procs
  BY DEF Procs, Programs
<1>2. /\ app' = app /\ UNCHANGED shellVars /\ backlog' = backlog /\ posted' = posted
      /\ said' = said /\ UNCHANGED serverVars /\ proc[p] = "connected"
      /\ \E to \in {"asks", "refused"} : Steps(p, to) /\ (to = "asks" => serving # NULL)
  BY DEF AskExport
<1> HIDE DEF p
<1>3. exported \in BOOLEAN
  BY DEF AppInv, AppTypes
<1> QED
  BY <1>1, <1>2, <1>3, RequestKeeps DEF serverVars

\* The server takes the request: it replies, ends, or waits for the touch pad.
LEMMA ExportKeeps ==
  ASSUME AppInv, NEW l \in Lives, UsbipdExports(l)
  PROVE  AppInv'
<1> DEFINE p == <<"bind_driver", l>>
<1>1. p \in Procs
  BY DEF Procs, Programs
<1>2. /\ app' = app /\ UNCHANGED shellVars /\ backlog' = backlog /\ posted' = posted
      /\ said' = said /\ proc[p] = "asks" /\ asked = NULL
      /\ \/ exported /\ Steps(p, "granted") /\ UNCHANGED serverVars
         \/ ~exported /\ Steps(p, "refused") /\ UNCHANGED serverVars
         \/ Ends(serving)
         \/ ~exported /\ asked' = p /\ UNCHANGED <<proc, serving, exported, gone>>
  BY DEF UsbipdExports, Replied
<1>3. exported \in BOOLEAN
  BY DEF AppInv, AppTypes
<1> HIDE DEF p
<1>4. CASE exported /\ Steps(p, "granted") /\ UNCHANGED serverVars
  BY <1>1, <1>2, <1>3, <1>4, RequestKeeps DEF serverVars
<1>5. CASE ~exported /\ Steps(p, "refused") /\ UNCHANGED serverVars
  BY <1>1, <1>2, <1>3, <1>5, RequestKeeps DEF serverVars
<1>6. CASE Ends(serving)
  <2>1. serving # NULL
    BY <1>1, <1>2 DEF AppInv, Present
  <2> QED
    BY <1>2, <1>6, <2>1, ServerEndKeeps
<1>7. CASE ~exported /\ asked' = p /\ UNCHANGED <<proc, serving, exported, gone>>
  <2>1. AppTypes' /\ Present' /\ Accounted
    BY <1>1, <1>2, <1>7 DEF AppInv, AppTypes, Present, Accounted, shellVars
  <2> QED
    BY <1>2, <1>7, <2>1, QuietKeeps
<1> QED
  BY <1>2, <1>4, <1>5, <1>6, <1>7

\* The touch pad connects, and the request is replied to.
LEMMA PadKeeps ==
  ASSUME AppInv, PadConnects
  PROVE  AppInv'
<1>1. asked \in Procs /\ proc[asked] = "asks" /\ ~exported
  BY DEF PadConnects, AppInv, Present
<1>2. /\ app' = app /\ UNCHANGED shellVars /\ backlog' = backlog /\ posted' = posted
      /\ said' = said /\ serving' = serving /\ gone' = gone /\ asked' = NULL
      /\ exported' \in BOOLEAN
      /\ Steps(asked, IF exported' THEN "granted" ELSE "refused")
  BY DEF PadConnects, Replied
<1> QED
  BY <1>1, <1>2, RequestKeeps

\* The touch pad leaves, or takes the server with it.
LEMMA LeaveKeeps ==
  ASSUME AppInv, PadLeaves
  PROVE  AppInv'
<1>1. /\ app' = app /\ UNCHANGED shellVars /\ backlog' = backlog /\ posted' = posted
      /\ said' = said
      /\ \/ /\ exported' = FALSE /\ gone' = gone \cup {"pad"}
            /\ UNCHANGED <<proc, serving, asked>>
         \/ Ends(serving)
  BY DEF PadLeaves
<1>2. CASE Ends(serving)
  <2>1. serving # NULL
    BY DEF AppInv, Present, PadLeaves
  <2> QED
    BY <1>1, <1>2, <2>1, ServerEndKeeps
<1>3. CASE exported' = FALSE /\ gone' = gone \cup {"pad"} /\ UNCHANGED <<proc, serving, asked>>
  <2>1. AppTypes' /\ Present' /\ Accounted
    BY <1>1, <1>3 DEF AppInv, AppTypes, Present, Accounted, shellVars
  <2> QED
    BY <1>1, <1>3, <2>1, QuietKeeps
<1> QED
  BY <1>1, <1>2, <1>3

\* The word to the application comes after the reply, and says what the reply says.
LEMMA CompleteKeeps ==
  ASSUME AppInv, NEW l \in Lives, BindComplete(l)
  PROVE  AppInv'
<1> DEFINE p == <<"bind_driver", l>>
           word == IF proc[p] = "granted" THEN "complete" ELSE "err"
<1>1. p \in Procs
  BY DEF Procs, Programs
<1>2. /\ app' = app /\ UNCHANGED shellVars /\ backlog' = backlog /\ posted' = posted
      /\ UNCHANGED serverVars /\ proc[p] \in {"granted", "refused"} /\ Steps(p, "over")
      /\ Says(p, <<word>>)
  BY DEF BindComplete
<1>3. word \in Words /\ word # "usbipd start" /\ (word = "complete" => proc[p] = "granted")
  BY DEF Words
<1> HIDE DEF p, word
<1>4. /\ <<word>> \in Seq(Words) /\ Warns(<<word>>)
      /\ Has(<<word>>, "complete") => proc[p] = "granted"
  BY <1>3, SomeWords
<1>5. /\ Present' /\ proc' \in [Procs -> Stages] /\ proc'[p] = "over"
      /\ \A q \in Procs : q # p => proc'[q] = proc[q]
  BY <1>1, <1>2, StepsPresent DEF Stages, serverVars
<1>6. said[p] = <<>> /\ said' \in [Procs -> Seq(Words)]
  <2>1. said[p] = <<>> /\ said[p] \in Seq(Words) /\ said \in [Procs -> Seq(Words)]
    BY <1>1, <1>2 DEF AppInv, EachOnce, AppTypes
  <2>2. said[p] \o <<word>> \in Seq(Words)
    BY <1>4, <2>1, ConcatProperties
  <2> QED
    BY <1>1, <1>2, <2>1, <2>2 DEF Says
<1>7. AppTypes' /\ Accounted
  BY <1>2, <1>5, <1>6 DEF AppInv, AppTypes, Accounted, shellVars, serverVars
<1>8. Has(<<word>>, "complete") => exported' \/ "pad" \in gone'
  BY <1>1, <1>2, <1>4 DEF AppInv, CompleteIsTrue, serverVars
<1> QED
  BY <1>1, <1>2, <1>4, <1>5, <1>6, <1>7, <1>8, SayingKeeps

\* Nothing is started or shown at first.
LEMMA InitialActivity ==
  AppInit => AppInv
<1> SUFFICES ASSUME AppInit PROVE AppInv
  OBVIOUS
<1> USE DEF AppInit
<1>1. /\ app \in Activity /\ app.life = 0 /\ app.list = FALSE /\ app.item = "RED"
      /\ app.told = FALSE
  BY AppAssumption DEF NewActivity, Activity
<1>2. <<>> \in Seq(Words) /\ \A w : ~Has(<<>>, w)
  BY DEF Has
<1>3. \A p \in Procs : said[p] = <<>> /\ proc[p] = "none" /\ thread[p].at = "none"
  OBVIOUS
<1>4. said \in [Procs -> Seq(Words)]
  BY <1>2, Zenon
<1>5. thread \in [Procs -> [at : {"none", "accept", "recv", "over"},
                            sock : Sockets \cup {"bound", "dead"}]]
  <2> DEFINE none == [at |-> "none", sock |-> NULL]
  <2>1. none \in [at : {"none", "accept", "recv", "over"}, sock : Sockets \cup {"bound", "dead"}]
    BY DEF Sockets
  <2> HIDE DEF none
  <2> QED
    BY <2>1 DEF none
<1>6. /\ proc \in [Procs -> Stages]
      /\ sock_usbipd \in Sockets /\ sock_binddriver \in Sockets
      /\ sockfd_listen \in {NULL, "bound", "dead"} /\ exported \in BOOLEAN
  BY DEF Sockets, Stages
<1>7. backlog \in Seq(Procs) /\ posted \in Seq(Message) /\ Len(posted) = 0
  OBVIOUS
<1>8. AppTypes
  BY <1>1, <1>3, <1>4, <1>5, <1>6, <1>7, Zenon DEF AppTypes
<1>9. EachOnce
  BY <1>3, Zenon DEF EachOnce
<1>10. OpenAfterToast(posted) /\ NoBind(posted)
  BY <1>7 DEF OpenAfterToast, NoBind
<1>11. ErrorComesFirst
  BY <1>1, <1>2, <1>3, <1>10 DEF ErrorComesFirst, Warns
<1>12. CompleteIsTrue
  <2>1. "RED" # "BIND"
    OBVIOUS
  <2> QED
    BY <1>1, <1>2, <1>3, <1>10, <2>1 DEF CompleteIsTrue
<1>13. Present
  BY DEF Present
<1> QED
  BY <1>8, <1>9, <1>11, <1>12, <1>13 DEF AppInv

\* Every step keeps the invariant.
LEMMA AppStepKeeps ==
  ASSUME AppInv, [AppNext]_appVars
  PROVE  AppInv'
<1>1. CASE Open
  BY <1>1, OpenKeeps
<1>2. CASE ClickConnect \/ ClickReady
  BY <1>2, StartKeeps
<1>3. CASE HandleMessage
  BY <1>3, HandleKeeps
<1>4. CASE PadConnects \/ PadLeaves
  BY <1>4, PadKeeps, LeaveKeeps
<1>5. ASSUME NEW l \in Lives, Listens(l) PROVE AppInv'
  BY <1>5, ListenKeeps
<1>6. ASSUME NEW l \in Lives, ProcRuns(l) PROVE AppInv'
  <2>1. ASSUME NEW program \in Programs, ConnectToApp(<<program, l>>) PROVE AppInv'
    <3>1. <<program, l>> \in Procs
      BY DEF Procs
    <3> QED
      BY <2>1, <3>1, ConnectKeeps
  <2>2. CASE UsbipdStarts(l)
    BY <2>2, StartsKeeps
  <2>3. CASE AskExport(l)
    BY <2>3, AskKeeps
  <2>4. CASE UsbipdExports(l)
    BY <2>4, ExportKeeps
  <2>5. CASE BindComplete(l)
    BY <2>5, CompleteKeeps
  <2> QED
    BY <1>6, <2>1, <2>2, <2>3, <2>4, <2>5 DEF ProcRuns
<1>7. ASSUME NEW l \in Lives, NEW program \in Programs, Receive(program, l) PROVE AppInv'
  BY <1>7, ReceiveKeeps
<1>8. ASSUME NEW l \in Lives, UsbipdEnds(l) PROVE AppInv'
  BY <1>8, UsbipdEndKeeps
<1>9. ASSUME NEW l \in Lives, NEW program \in Programs, ThreadStops(<<program, l>>) PROVE AppInv'
  <2>1. <<program, l>> \in Procs
    BY DEF Procs
  <2> QED
    BY <1>9, <2>1, StopKeeps
<1>10. CASE UNCHANGED appVars
  BY <1>10, Zenon DEF appVars, AppInv, AppTypes, Present, EachOnce, ErrorComesFirst,
                      CompleteIsTrue
<1> QED
  BY <1>1, <1>2, <1>3, <1>4, <1>5, <1>6, <1>7, <1>8, <1>9, <1>10 DEF AppNext, AppUser

\* What the application shows was so, and what it shows in vain has gone since: it offers
\* the list of devices only when usbipd serves clients, has served them and ended (g_error,
\* server_listen_accept, a signal), or the user was told that something failed (ShellProc's
\* handler, do_standalone_mode); it shows the touch pad as ready only when the server has it
\* or has lost it (process_device_urb_test, the end of usbipd), and never for a request
\* that was refused (use_device_by_usbip).
THEOREM WhatIsShownIsSo ==
  AppSpec => []ShownIsSo
<1>1. AppInv => ShownIsSo
  BY Zenon DEF AppInv, ErrorComesFirst, CompleteIsTrue, ShownIsSo
<1> QED
  BY <1>1, InitialActivity, AppStepKeeps, PTL DEF AppSpec

==============================================================================
