------------------------------- MODULE UsbipApp -------------------------------
(***************************************************************************)
(* The Android application that starts the server and gets a device ready  *)
(* (Server/Android-USB), with the two programs it starts: usbipd, of whose *)
(* main loop the exports are here, and the ends; and usbip_bind_driver,    *)
(* which asks usbipd to export the touch pad.  Both connect to the         *)
(* application and report to it in words; which of the two is at the other *)
(* end of a connection the application tells by the order in which it      *)
(* accepts them.  The touch pad may leave and usbipd may end, most often   *)
(* without a word.  The process of the application outlives its activity,  *)
(* which the user may leave and open again: each opening is a life.        *)
(***************************************************************************)
EXTENDS Naturals, Sequences, FiniteSets

CONSTANTS
  MaxLives,  \* bound: how often the activity is opened
  NULL

Lives == 1..MaxLives
Programs == {"usbipd", "bind_driver"}
Procs == Programs \X Lives

ASSUME AppAssumption == MaxLives \in Nat \ {0} /\ NULL \notin Procs

VARIABLES
  app,              \* the activity: its life, its widgets, the programs it started
  isServerOn,       \* of ShellProc; set when binding failed
  sockfd_listen,    \* the listening socket: absent, "bound", or "dead" (never bound)
  sock_usbipd,      \* what the two threads receive from
  sock_binddriver,
  thread,           \* ShellProc's two threads of each life: where, and on which socket
  backlog,          \* processes that connected and were not accepted yet
  posted,           \* messages to the activity's handler, with the life they are for
  proc,             \* where each process is
  said,             \* what it has sent and the application not received
  serving,          \* the usbipd that listens for clients
  asked,            \* the bind_driver for which usbipd waits for the touch pad
  exported,         \* the touch pad is connected to usbipd, and on its list
  sockfd_pad,       \* usbipd's socket for the touch pad's port is open; it stays so
  gone              \* history: what was there and has gone, "usbipd" or "pad"

appVars == <<app, isServerOn, sockfd_listen, sock_usbipd, sock_binddriver, thread,
             backlog, posted, proc, said, serving, asked, exported, sockfd_pad, gone>>

shellVars == <<isServerOn, sockfd_listen, sock_usbipd, sock_binddriver, thread>>
serverVars == <<serving, asked, exported, sockfd_pad, gone>>
procVars == <<proc, said, serverVars>>

Alive == app.life > 0 /\ ~app.crashed

Post(what) == posted' = Append(posted, [what |-> what, life |-> app.life])

(***************************************************************************)
(* The activity.                                                           *)
(***************************************************************************)

NewActivity(life) == [life |-> life, crashed |-> FALSE, button |-> FALSE, list |-> FALSE,
                      item |-> "RED", started |-> {}, told |-> FALSE]

\* The thread that startListen starts; it starts the other.
FirstThreads == {"usbipd"}

\* server_bind: the port is taken by the socket that it bound before.
BindFails == sockfd_listen # NULL

\* onCreate, and ShellProc's onStart with startListen: a socket is bound unless that has
\* failed before; a second one in a process cannot be bound, but takes the place of the
\* first.  The value of server_bind after success is what listen returned.
Open ==
  /\ app.life < MaxLives /\ ~app.crashed
  /\ app' = [NewActivity(app.life + 1) EXCEPT !.told = app.told]
  /\ LET binds == ~isServerOn
         fails == binds /\ BindFails
         now   == IF fails THEN "dead" ELSE IF binds THEN "bound" ELSE sockfd_listen
     IN  /\ sockfd_listen' = now
         /\ isServerOn' = (isServerOn \/ fails)
         /\ posted' = Append(posted, [what |-> IF fails THEN "toast" ELSE "ready",
                                      life |-> app.life + 1])
         /\ thread' = IF fails THEN thread
                      ELSE [p \in Procs |-> IF p \in FirstThreads \X {app.life + 1}
                                            THEN [at |-> "accept", sock |-> now]
                                            ELSE thread[p]]
  /\ UNCHANGED <<sock_usbipd, sock_binddriver, backlog, procVars>>

\* Thread.start: a thread object that was started already throws, and that ends the
\* application.
Starts(program) ==
  IF program \in app.started
  THEN app' = [app EXCEPT !.crashed = TRUE] /\ UNCHANGED proc
  ELSE /\ app' = [app EXCEPT !.started = @ \cup {program}]
       /\ proc' = [proc EXCEPT ![<<program, app.life>>] = "exec"]

\* mOnClick
ClickConnect ==
  /\ Alive /\ app.button
  /\ Starts("usbipd")
  /\ UNCHANGED <<shellVars, backlog, posted, said, serverVars>>

\* ItemClickDlg of the touch pad, "make ready"; the touch pad is opened, too.
ClickReady ==
  /\ Alive /\ app.list /\ app.item = "RED"
  /\ Starts("bind_driver")
  /\ UNCHANGED <<shellVars, backlog, posted, said, serverVars>>

\* ThreadExec has read the output of a program that is over to its end: destroyProc calls
\* the thread's own stop(), which ends that thread, or is not supported and ends the
\* application.  No message is sent.
ThreadStops(p) ==
  /\ Alive /\ proc[p] = "over"
  /\ app' = [app EXCEPT !.crashed = TRUE]
  /\ UNCHANGED <<shellVars, backlog, posted, procVars>>

\* handleMessage, of the activity that was there when the message was sent; a toast is
\* shown all the same.
HandleMessage ==
  /\ Alive /\ posted # <<>>
  /\ posted' = Tail(posted)
  /\ LET m == Head(posted) IN
     app' = IF m.life # app.life /\ m.what # "toast" THEN app
            ELSE CASE m.what = "toast" -> [app EXCEPT !.told = TRUE]
                   [] m.what = "ready" -> [app EXCEPT !.button = TRUE]
                   [] m.what = "open"  -> [app EXCEPT !.button = FALSE, !.list = TRUE]
                   [] m.what = "bind"  -> [app EXCEPT !.item = "BIND"]
  /\ UNCHANGED <<shellVars, backlog, procVars>>

(***************************************************************************)
(* ShellProc's threads and USBIPConnect.c.                                 *)
(***************************************************************************)

Over == [at |-> "over", sock |-> NULL]

\* listen_usbipd: a failed accept, too, is what is received from then on.  The thread
\* starts the other one, which takes the listening socket as it finds it.
ListenUsbipd(l) ==
  LET me == <<"usbipd", l>> IN
  /\ Alive /\ thread[me].at = "accept"
  /\ IF thread[me].sock = "dead"
     THEN sock_usbipd' = NULL /\ thread' = [thread EXCEPT ![me] = Over] /\ UNCHANGED backlog
     ELSE /\ backlog # <<>>
          /\ backlog' = Tail(backlog)
          /\ sock_usbipd' = Head(backlog)
          /\ thread' = [thread EXCEPT ![me] = [at |-> "recv", sock |-> Head(backlog)],
               ![<<"bind_driver", l>>] = [at |-> "accept", sock |-> sockfd_listen]]
  /\ UNCHANGED <<app, isServerOn, sockfd_listen, sock_binddriver, posted, procVars>>

\* listen_binddriver
ListenBinddriver(l) ==
  LET me == <<"bind_driver", l>> IN
  /\ Alive /\ thread[me].at = "accept"
  /\ IF thread[me].sock = "dead"
     THEN /\ sock_binddriver' = NULL
          /\ thread' = [thread EXCEPT ![me] = Over] /\ UNCHANGED backlog
     ELSE /\ backlog # <<>>
          /\ backlog' = Tail(backlog)
          /\ sock_binddriver' = Head(backlog)
          /\ thread' = [thread EXCEPT ![me] = [at |-> "recv", sock |-> Head(backlog)]]
  /\ UNCHANGED <<app, isServerOn, sockfd_listen, sock_usbipd, posted, procVars>>

\* Faulty variant: both threads know the same word.
UnderstandsStart(program) == {"usbipd start"}

\* The word that recvUSBIPD or recvBINDDRIVER acts on.
Understands(program) == IF program = "usbipd" THEN {"usbipd start"} ELSE {"complete"}

Acts(word, program) ==
  IF word = "err" THEN Post("toast")
  ELSE IF word \in Understands(program)
  THEN Post(IF word = "complete" THEN "bind" ELSE "open") ELSE UNCHANGED posted

\* recvUSBIPD, recvBINDDRIVER: one call of recv, which takes what there is, and of
\* which the first message is seen; the next call is on the socket the library then has.
Receive(program, l) ==
  LET me   == <<program, l>>
      from == thread[me].sock
      next == IF program = "usbipd" THEN sock_usbipd ELSE sock_binddriver
  IN  /\ Alive /\ thread[me].at = "recv"
      /\ \/ /\ from # NULL /\ said[from] # <<>>
            /\ \E k \in 1..Len(said[from]) :
                 said' = [said EXCEPT ![from] = SubSeq(@, k + 1, Len(@))]
            /\ Acts(Head(said[from]), program)
            /\ thread' = [thread EXCEPT ![me].sock = next]
         \/ /\ from # NULL => said[from] = <<>> /\ proc[from] = "over"
            /\ thread' = [thread EXCEPT ![me] = Over]
            /\ UNCHANGED <<said, posted>>
      /\ UNCHANGED <<app, isServerOn, sockfd_listen, sock_usbipd, sock_binddriver,
                     backlog, proc, serverVars>>

(***************************************************************************)
(* The programs.                                                           *)
(***************************************************************************)

Steps(p, to) == proc' = [proc EXCEPT ![p] = to]

Says(p, words) == said' = [said EXCEPT ![p] = @ \o words]

\* connect_to_usbipApp: the program ends when nobody listens.
ConnectToApp(p) ==
  /\ proc[p] = "exec"
  /\ IF Alive THEN Steps(p, "connected") /\ backlog' = Append(backlog, p)
     ELSE Steps(p, "over") /\ UNCHANGED backlog
  /\ UNCHANGED <<app, shellVars, posted, said, serverVars>>

\* What do_standalone_mode and listen_all_addrinfo report.
StartWords(ok) == IF ok THEN <<"usbipd start">> ELSE <<"err", "usbipd start">>

\* do_standalone_mode: a server that cannot listen goes on.
UsbipdStarts(l) ==
  LET p == <<"usbipd", l>> IN
  /\ proc[p] = "connected"
  /\ Steps(p, "up")
  /\ \E ok \in IF serving = NULL THEN BOOLEAN ELSE {FALSE} :
       /\ serving' = IF ok THEN p ELSE serving
       /\ Says(p, StartWords(ok))
  /\ UNCHANGED <<app, shellVars, backlog, posted, asked, exported, sockfd_pad, gone>>

\* Faulty variant: a device that could not be exported is reported as exported.
RepliedOK(done) == "granted"

\* What the reply to an export request makes of the program that sent it; a connection that
\* ends without one is a refusal.
Replied(done) == IF done THEN "granted" ELSE "refused"

\* The usbipd p ends.  With the server goes what it exported and the connections to it.
Ends(p) ==
  IF p # serving
  THEN Steps(p, "over") /\ UNCHANGED serverVars
  ELSE /\ proc' = [q \in Procs |-> IF q = p THEN "over"
                                  ELSE IF proc[q] = "asks" THEN Replied(FALSE) ELSE proc[q]]
       /\ serving' = NULL /\ asked' = NULL /\ exported' = FALSE /\ sockfd_pad' = FALSE
       /\ gone' = gone \cup {"usbipd"} \cup IF exported THEN {"pad"} ELSE {}

\* usbipd ends in one of its g_error calls, or by a signal: the main loop, unless a handler
\* of it waits for the touch pad, ends with a word.
UsbipdEnds(l) ==
  LET p == <<"usbipd", l>> IN
  /\ proc[p] \in {"connected", "up"}
  /\ \/ UNCHANGED said
     \/ proc[p] = "up" /\ (p = serving => asked = NULL) /\ Says(p, <<"err">>)
  /\ Ends(p)
  /\ UNCHANGED <<app, shellVars, backlog, posted>>

\* bind_to_usbip, as far as the request.
AskExport(l) ==
  LET p == <<"bind_driver", l>> IN
  /\ proc[p] = "connected"
  /\ Steps(p, IF serving = NULL THEN "refused" ELSE "asks")
  /\ UNCHANGED <<app, shellVars, backlog, posted, said, serverVars>>

\* recv_request_export, as far as server_listen_accept in claim_dev, which blocks usbipd
\* until the touch pad is there.  A device that is exported, or that there is no memory for,
\* is replied to at once.  The touch pad's port is free once only: usbipd exits.
UsbipdExports(l) ==
  LET p == <<"bind_driver", l>> IN
  /\ proc[p] = "asks" /\ asked = NULL
  /\ \/ exported /\ Steps(p, Replied(TRUE)) /\ UNCHANGED serverVars
     \/ ~exported /\ Steps(p, Replied(FALSE)) /\ UNCHANGED serverVars
     \/ ~exported /\ sockfd_pad /\ Ends(serving)
     \/ /\ ~exported /\ ~sockfd_pad
        /\ asked' = p /\ sockfd_pad' = TRUE
        /\ UNCHANGED <<proc, serving, exported, gone>>
  /\ UNCHANGED <<app, shellVars, backlog, posted, said>>

\* The touch pad connects: the rest of claim_dev, which may fail, export_device, which puts
\* the device on the list, and the reply.
PadConnects ==
  /\ asked # NULL
  /\ asked' = NULL
  /\ exported' \in BOOLEAN
  /\ Steps(asked, Replied(exported'))
  /\ UNCHANGED <<app, shellVars, backlog, posted, said, serving, sockfd_pad, gone>>

\* process_device_urb_test, of a touch pad that leaves: the device is no longer exported,
\* or, when no client has it and the channel has but the end to read, usbipd aborts.
\* Neither is told to the application.
PadLeaves ==
  /\ exported
  /\ \/ /\ exported' = FALSE /\ gone' = gone \cup {"pad"}
        /\ UNCHANGED <<proc, serving, asked, sockfd_pad>>
     \/ Ends(serving)
  /\ UNCHANGED <<app, shellVars, backlog, posted, said>>

\* use_device_by_usbip: the reply, and the word to the application.
BindComplete(l) ==
  LET p == <<"bind_driver", l>> IN
  /\ proc[p] \in {"granted", "refused"}
  /\ Steps(p, "over")
  /\ Says(p, IF proc[p] = "granted" THEN <<"complete">> ELSE <<"err">>)
  /\ UNCHANGED <<app, shellVars, backlog, posted, serverVars>>

(***************************************************************************)
(* The specification.                                                      *)
(***************************************************************************)

AppInit ==
  /\ app = NewActivity(0)
  /\ isServerOn = FALSE
  /\ sockfd_listen = NULL
  /\ sock_usbipd = NULL
  /\ sock_binddriver = NULL
  /\ thread = [p \in Procs |-> [at |-> "none", sock |-> NULL]]
  /\ backlog = <<>>
  /\ posted = <<>>
  /\ proc = [p \in Procs |-> "none"]
  /\ said = [p \in Procs |-> <<>>]
  /\ serving = NULL
  /\ asked = NULL
  /\ exported = FALSE
  /\ sockfd_pad = FALSE
  /\ gone = {}

AppUser == Open \/ ClickConnect \/ ClickReady

Listens(l) == ListenUsbipd(l) \/ ListenBinddriver(l)

ProcRuns(l) == \/ \E program \in Programs : ConnectToApp(<<program, l>>)
               \/ UsbipdStarts(l) \/ AskExport(l) \/ UsbipdExports(l) \/ BindComplete(l)

AppNext ==
  \/ AppUser \/ HandleMessage \/ PadConnects \/ PadLeaves
  \/ \E l \in Lives : \/ Listens(l) \/ ProcRuns(l) \/ UsbipdEnds(l)
                      \/ \E program \in Programs : \/ Receive(program, l)
                                                   \/ ThreadStops(<<program, l>>)

AppSpec == AppInit /\ [][AppNext]_appVars

\* Threads and programs run, the handler's looper does; users do as they like.
AppFairSpec ==
  /\ AppSpec
  /\ WF_appVars(HandleMessage)
  /\ \A l \in Lives : /\ WF_appVars(ListenUsbipd(l)) /\ WF_appVars(ListenBinddriver(l))
                      /\ WF_appVars(ProcRuns(l))
                      /\ \A program \in Programs : WF_appVars(Receive(program, l))

(***************************************************************************)
(* Properties.                                                             *)
(***************************************************************************)

\* What the application shows was so, whatever recv makes of the words, and what it shows in
\* vain has gone since, of which it is not told: it offers the list of devices when usbipd
\* serves clients, has served them and ended, or the user was told that something failed;
\* it shows the touch pad as ready when the server has it, or has lost it.
ShownIsSo ==
  /\ app.list => serving # NULL \/ "usbipd" \in gone \/ app.told
  /\ app.item = "BIND" => exported \/ "pad" \in gone

\* A device got ready is shown as ready, unless the activity was opened again, the user
\* was told of an error, or the application crashed (by clicks before the answer).
ReadyIsShown ==
  (exported /\ app.item = "RED" /\ "bind_driver" \in app.started /\ app.life = 1)
    ~> (app.item = "BIND" \/ app.told \/ app.crashed \/ app.life # 1)

=============================================================================
