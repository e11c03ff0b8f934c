---------------------------- MODULE Descriptors -----------------------------
(***************************************************************************)
(* The descriptors of the program: main(), netsock() and                   *)
(* netsock_callback() of xdpacket.c, parse_new() and parse_free() of       *)
(* parse2.c, iface_new(), iface_free() and iface_parse() of iface.c.       *)
(*                                                                         *)
(* The kernel hands out the lowest free number, so that a number closed is *)
(* soon somebody else's.  A callback of epoll_track is a sequence of steps *)
(* that no other callback interrupts; clients come and go at any time.     *)
(***************************************************************************)
EXTENDS Naturals, FiniteSets, Functions

CONSTANTS MaxFd,        \* the highest descriptor number there is
          Addr,         \* addresses to listen on
          Client,       \* clients of the control interface
          Iface,        \* names of network interfaces
          Fault         \* system calls that may fail for no reason of the program's

Fd == 0..MaxFd
ASSUME RoomToStart == MaxFd \in Nat /\ MaxFd >= 6
ASSUME DescriptorFaults == Fault \subseteq {"accept", "bind", "eptk_register", "ioctl", "recvfrom"}

VARIABLES table,        \* the kernel's: descriptor -> what it is open on
          polled,       \* epoll_track: descriptor -> its file, and what the destructor closes
          iface,        \* iface_JS: name -> iface.fd
          busy,         \* the interfaces with a refcnt
          abandoned,    \* those of them with a reference that nobody has any more
          client,       \* each is "away", "waits" at an address, is "on", or "off": it has hung up
          options,      \* addresses of -i that are still to be opened
          fresh,        \* local of a callback: the descriptor it has just opened
          err_cnt,      \* main(): the value returned, 0 or not
          pc            \* where the program is

vars == <<table, polled, iface, busy, abandoned, client, options, fresh, err_cnt, pc>>

\* What a descriptor is open on.
Std == <<"std", 0>>
Epoll == <<"epoll", 0>>
Stdin == <<"stdin", 0>>
Stdout == <<"stdout", 0>>
Listen(a) == <<"listen", a>>
Conn(c) == <<"conn", c>>
Raw(n) == <<"raw", n>>
-----------------------------------------------------------------------------
(* The kernel. *)

Free == Fd \ DOMAIN table

\* socket(), accept(), dup(): fd is what they return.
Opens(fd) == fd \in Free /\ \A other \in Free : fd <= other

Open(fd, file) == table' = [d \in DOMAIN table \cup {fd} |-> IF d = fd THEN file ELSE table[d]]
Close(fds) == table' = Restrict(table, DOMAIN table \ fds)

\* A socket that is closed turns away who waits at it or is connected by it.
TurnedAway(files) ==
  client' = [c \in Client |->
    IF Conn(c) \in files \/ \E a \in Addr : client[c] = <<"waits", a>> /\ Listen(a) \in files
    THEN <<"away">> ELSE client[c]]

Opened(fds) == {table[d] : d \in fds \cap DOMAIN table}

(* epoll_track. *)
Register(fd, file, fds) ==
  polled' = [d \in DOMAIN polled \cup {fd} |->
    IF d = fd THEN [of |-> file, fds |-> fds] ELSE polled[d]]

\* eptk_remove(): the destructor closes what is its own, or epoll_track the socket.
Forget(fd) ==
  /\ polled' = Restrict(polled, DOMAIN polled \ {fd})
  /\ Close(polled[fd].fds)
  /\ TurnedAway(Opened(polled[fd].fds))
-----------------------------------------------------------------------------
(* main() up to the loop. *)

\* eptk_new(), then the two dup(): a descriptor each, the lowest three.
Opens3(e, in, out) ==
  /\ {e, in, out} \subseteq Free
  /\ e < in /\ in < out
  /\ \A other \in Free : other \in {e, in} \/ out <= other
  /\ table' = [d \in DOMAIN table \cup {e, in, out} |->
       IF d = e THEN Epoll ELSE IF d = in THEN Stdin
       ELSE IF d = out THEN Stdout ELSE table[d]]

Boot ==
  /\ pc = "boot"
  /\ \E e, in, out \in Fd : Opens3(e, in, out) /\ Register(in, Stdin, {in, out})
  /\ pc' = "options"
  /\ UNCHANGED <<iface, busy, abandoned, client, options, fresh, err_cnt>>

\* NB_die_if() in main()
Die == pc' = "free_all" /\ err_cnt' = 1

\* epoll does not take every kind of file for stdin.
BootFails ==
  /\ pc = "boot"
  /\ "eptk_register" \in Fault
  /\ \E e, in, out \in Fd : Opens3(e, in, out)
  /\ Die
  /\ UNCHANGED <<polled, iface, busy, abandoned, client, options, fresh>>

\* netsock() for one address.
Netsock(a) ==
  /\ pc = "options"
  /\ a \in options
  /\ options' = options \ {a}
  /\ \E fd \in Fd \ {0} :
       /\ Opens(fd)
       /\ Open(fd, Listen(a))
       /\ Register(fd, Listen(a), {fd})
  /\ UNCHANGED <<iface, busy, abandoned, client, fresh, err_cnt, pc>>

\* No socket to be had, or one that cannot be bound or registered and stays open.
NetsockFails(a) ==
  /\ pc = "options"
  /\ a \in options
  /\ \/ Free = {} /\ UNCHANGED table
     \/ /\ Fault \cap {"bind", "eptk_register"} # {}
        /\ \E fd \in Fd : Opens(fd) /\ Open(fd, Listen(a))
  /\ Die
  /\ UNCHANGED <<polled, iface, busy, abandoned, client, options, fresh>>

\* --help, or an option there is not.
Usage ==
  /\ pc = "options"
  /\ pc' = "free_all"
  /\ err_cnt' \in {0, 1}
  /\ UNCHANGED <<table, polled, iface, busy, abandoned, client, options, fresh>>

Loop ==
  /\ pc = "options"
  /\ options = {}
  /\ pc' = "loop"
  /\ UNCHANGED <<table, polled, iface, busy, abandoned, client, options, fresh, err_cnt>>
-----------------------------------------------------------------------------
(* The clients. *)
Connect(c, a) ==
  /\ client[c] = <<"away">>
  /\ \E fd \in DOMAIN polled : polled[fd].of = Listen(a)
  /\ client' = [client EXCEPT ![c] = <<"waits", a>>]
  /\ UNCHANGED <<table, polled, iface, busy, abandoned, options, fresh, err_cnt, pc>>

Hangup(c) ==
  /\ client[c] = <<"on">>
  /\ client' = [client EXCEPT ![c] = <<"off">>]
  /\ UNCHANGED <<table, polled, iface, busy, abandoned, options, fresh, err_cnt, pc>>
-----------------------------------------------------------------------------
(* netsock_callback() *)

\* The parser of a connection reads and answers by the same descriptor.
Accept(fd, c) ==
  /\ pc = "loop"
  /\ fd \in DOMAIN polled
  /\ \E a \in Addr : polled[fd].of = Listen(a) /\ client[c] = <<"waits", a>>
  /\ \E newfd \in Fd \ {0} :
       /\ Opens(newfd)
       /\ Open(newfd, Conn(c))
       /\ Register(newfd, Conn(c), {newfd})
  /\ client' = [client EXCEPT ![c] = <<"on">>]
  /\ UNCHANGED <<iface, busy, abandoned, options, fresh, err_cnt, pc>>

\* Defect: the callback returns 0, and epoll_track goes on polling the socket.
AcceptFailsQuietly(fd, c) ==
  /\ pc = "loop"
  /\ fd \in DOMAIN polled
  /\ \E a \in Addr : polled[fd].of = Listen(a) /\ client[c] = <<"waits", a>>
  /\ Free = {} \/ "accept" \in Fault
  /\ UNCHANGED vars

\* accept() fails, or what comes after it does and newfd is closed again: the
\* callback returns 1 and epoll_track closes the listening socket.
AcceptFails(fd, c) ==
  /\ pc = "loop"
  /\ fd \in DOMAIN polled
  /\ \E a \in Addr : polled[fd].of = Listen(a) /\ client[c] = <<"waits", a>>
  /\ Free = {} \/ Fault \cap {"accept", "eptk_register"} # {}
  /\ Forget(fd)
  /\ UNCHANGED <<iface, busy, abandoned, options, fresh, err_cnt, pc>>

\* Defect: a read that finds nothing is taken for the end.
EndOfNothing(fd) ==
  /\ pc = "loop"
  /\ fd \in DOMAIN polled
  /\ \E c \in Client : polled[fd].of = Conn(c)
  /\ Forget(fd)
  /\ UNCHANGED <<iface, busy, abandoned, options, fresh, err_cnt, pc>>

\* parse_callback() at the end of its stream: epoll_track has parse_free() close both ends.
EndOfStream(fd) ==
  /\ pc = "loop"
  /\ fd \in DOMAIN polled
  /\ \/ polled[fd].of = Stdin
     \/ \E c \in Client : polled[fd].of = Conn(c) /\ client[c] = <<"off">>
  /\ Forget(fd)
  /\ UNCHANGED <<iface, busy, abandoned, options, fresh, err_cnt, pc>>

\* parse_write_handler() answers a client that has hung up meanwhile: SIGPIPE ends
\* the program, without destructors, and the kernel closes all it had open.
AnswerLost(fd) ==
  /\ pc = "loop"
  /\ fd \in DOMAIN polled
  /\ \E c \in Client : polled[fd].of = Conn(c) /\ client[c] = <<"off">>
  /\ Close(DOMAIN table \ {0, 1, 2})
  /\ TurnedAway(Opened(DOMAIN table))
  /\ polled' = Restrict(polled, {})
  /\ iface' = Restrict(iface, {})
  /\ busy' = {} /\ abandoned' = {}
  /\ pc' = "killed"
  /\ UNCHANGED <<options, fresh, err_cnt>>
-----------------------------------------------------------------------------
(* iface_parse(), executed by some parser. *)

Commanded == \E fd \in DOMAIN polled : polled[fd].of = Stdin \/ \E c \in Client : polled[fd].of = Conn(c)

\* iface_new(): the socket.
IfaceNew(n) ==
  /\ pc = "loop" /\ Commanded
  /\ n \notin DOMAIN iface
  /\ \E fd \in Fd :
       /\ Opens(fd)
       /\ Open(fd, Raw(n))
       /\ fresh' = fd
  /\ pc' = "iface_new"
  /\ UNCHANGED <<polled, iface, busy, abandoned, client, options, err_cnt>>

\* Defect: a socket without an interface stays open.
IfaceNewFailsOpen ==
  /\ pc = "iface_new"
  /\ "ioctl" \in Fault
  /\ pc' = "loop"
  /\ UNCHANGED <<table, polled, iface, busy, abandoned, client, options, fresh, err_cnt>>

\* No such interface, no address, not permitted: iface_free() closes the socket.
IfaceNewFails ==
  /\ pc = "iface_new"
  /\ "ioctl" \in Fault
  /\ Close({fresh})
  /\ fresh' = 0
  /\ pc' = "loop"
  /\ UNCHANGED <<polled, iface, busy, abandoned, client, options, err_cnt>>

\* Bound and listed; iface_parse() then registers it.
IfaceListed(n) ==
  /\ pc = "iface_new"
  /\ table[fresh] = Raw(n)
  /\ iface' = [m \in DOMAIN iface \cup {n} |-> IF m = n THEN fresh ELSE iface[m]]
  /\ pc' = "iface_parse"
  /\ UNCHANGED <<table, polled, busy, abandoned, client, options, fresh, err_cnt>>

IfaceRegistered ==
  /\ pc = "iface_parse"
  /\ Register(fresh, table[fresh], {fresh})
  /\ fresh' = 0
  /\ pc' = "loop"
  /\ UNCHANGED <<table, iface, busy, abandoned, client, options, err_cnt>>

\* ... which may fail: the interface stays listed.
IfaceUnregistered ==
  /\ pc = "iface_parse"
  /\ "eptk_register" \in Fault
  /\ fresh' = 0
  /\ pc' = "loop"
  /\ UNCHANGED <<table, polled, iface, busy, abandoned, client, options, err_cnt>>

\* A process or a rout takes the interface, the last of them lets it go.
Take(n) ==
  /\ pc = "loop" /\ Commanded
  /\ n \in DOMAIN iface \ busy
  /\ busy' = busy \cup {n}
  /\ UNCHANGED <<table, polled, iface, abandoned, client, options, fresh, err_cnt, pc>>

LetGo(n) ==
  /\ pc = "loop" /\ Commanded
  /\ n \in busy \ abandoned
  /\ busy' = busy \ {n}
  /\ UNCHANGED <<table, polled, iface, abandoned, client, options, fresh, err_cnt, pc>>

\* process_parse() builds the routs of its rules sequence in every mode, and before
\* it looks at the other members: unless a process is added, nobody has them then.
Abandon(n) ==
  /\ pc = "loop" /\ Commanded
  /\ n \in DOMAIN iface \ abandoned
  /\ busy' = busy \cup {n}
  /\ abandoned' = abandoned \cup {n}
  /\ UNCHANGED <<table, polled, iface, client, options, fresh, err_cnt, pc>>

\* Deletion by way of eptk_remove(), which knows interfaces by their descriptor.
IfaceDel(n) ==
  /\ pc = "loop" /\ Commanded
  /\ n \in DOMAIN iface \ busy
  /\ iface[n] \in DOMAIN polled
  /\ Forget(iface[n])
  /\ iface' = Restrict(iface, DOMAIN iface \ {n})
  /\ UNCHANGED <<busy, abandoned, options, fresh, err_cnt, pc>>

\* Defect: the destructor closes the socket of an interface it does not free.
RecvErrorCloses(n) ==
  /\ "recvfrom" \in Fault
  /\ pc = "loop"
  /\ n \in DOMAIN iface
  /\ iface[n] \in DOMAIN polled
  /\ Forget(iface[n])
  /\ iface' = IF n \in busy THEN iface ELSE Restrict(iface, DOMAIN iface \ {n})
  /\ UNCHANGED <<busy, abandoned, options, fresh, err_cnt, pc>>

\* iface_callback() returns 1; iface_free() refuses to free an interface in use.
RecvError(n) ==
  /\ "recvfrom" \in Fault
  /\ pc = "loop"
  /\ n \in DOMAIN iface
  /\ iface[n] \in DOMAIN polled
  /\ IF n \in busy
     THEN /\ polled' = Restrict(polled, DOMAIN polled \ {iface[n]})
          /\ UNCHANGED <<table, iface, client>>
     ELSE /\ Forget(iface[n])
          /\ iface' = Restrict(iface, DOMAIN iface \ {n})
  /\ UNCHANGED <<busy, abandoned, options, fresh, err_cnt, pc>>
-----------------------------------------------------------------------------
(* The end of main(). *)

\* psg_kill_check()
Kill ==
  /\ pc = "loop"
  /\ pc' = "free_all"
  /\ UNCHANGED <<table, polled, iface, busy, abandoned, client, options, fresh, err_cnt>>

\* process_free_all(), rule_free_all(), field_free_all(): they know nothing of
\* the routs that were abandoned.
FreeAll ==
  /\ pc = "free_all"
  /\ busy' = abandoned
  /\ pc' = "eptk_free"
  /\ UNCHANGED <<table, polled, iface, abandoned, client, options, fresh, err_cnt>>

\* What the destructors close, and epoll_track's own descriptor: iface_free()
\* refuses an interface with a refcnt.
Tracked ==
  {d \in DOMAIN table :
     \/ table[d] = Epoll
     \/ \E e \in DOMAIN polled : d \in polled[e].fds /\ \A n \in busy : polled[e].of # Raw(n)}

EptkFree ==
  /\ pc = "eptk_free"
  /\ Close(Tracked)
  /\ TurnedAway(Opened(Tracked))
  /\ iface' = Restrict(iface, {n \in DOMAIN iface : iface[n] \notin DOMAIN polled \/ n \in busy})
  /\ polled' = Restrict(polled, {})
  /\ pc' = "destructor"
  /\ UNCHANGED <<busy, abandoned, options, fresh, err_cnt>>

\* Defect: interfaces that nothing polls are forgotten.
IfaceFreeAllNone ==
  /\ pc = "destructor"
  /\ pc' = "exited"
  /\ UNCHANGED <<table, polled, iface, busy, abandoned, client, options, fresh, err_cnt>>

\* The destructor iface_free_all(): the interfaces that were not polled, but for
\* those that iface_free() refuses again.
IfaceFreeAll ==
  /\ pc = "destructor"
  /\ Close({iface[n] : n \in DOMAIN iface \ busy})
  /\ iface' = Restrict(iface, DOMAIN iface \cap busy)
  /\ pc' = "exited"
  /\ UNCHANGED <<polled, busy, abandoned, client, options, fresh, err_cnt>>

Stopped == pc \in {"exited", "killed"} /\ UNCHANGED vars
-----------------------------------------------------------------------------
Init ==
  /\ table = [d \in {0, 1, 2} |-> Std]
  /\ polled = [d \in {} |-> <<>>]
  /\ iface = [n \in {} |-> 0]
  /\ busy = {} /\ abandoned = {}
  /\ client = [c \in Client |-> <<"away">>]
  /\ options \in SUBSET Addr
  /\ fresh = 0
  /\ err_cnt = 0
  /\ pc = "boot"

Starting ==
  \/ Boot \/ BootFails \/ Usage \/ Loop
  \/ \E a \in Addr : Netsock(a) \/ NetsockFails(a)
Serve(c) == \E fd \in Fd : Accept(fd, c) \/ AcceptFails(fd, c)
IfaceAdding ==
  \/ IfaceNewFails \/ IfaceRegistered \/ IfaceUnregistered
  \/ \E n \in Iface : IfaceListed(n)
Ending == FreeAll \/ EptkFree \/ IfaceFreeAll

Next ==
  \/ Starting
  \/ \E c \in Client : Serve(c) \/ Hangup(c) \/ \E a \in Addr : Connect(c, a)
  \/ \E fd \in Fd : EndOfStream(fd) \/ AnswerLost(fd)
  \/ \E n \in Iface :
       IfaceNew(n) \/ Take(n) \/ LetGo(n) \/ Abandon(n) \/ IfaceDel(n) \/ RecvError(n)
  \/ IfaceAdding
  \/ Kill \/ Ending \/ Stopped

Spec == Init /\ [][Next]_vars

\* main() and its callbacks go on; epoll reports what stays ready in turn, and a
\* listening socket hands out its clients in the order they came.
FairSpec ==
  /\ Spec
  /\ WF_vars(Starting) /\ WF_vars(IfaceAdding) /\ WF_vars(Ending)
  /\ \A c \in Client : SF_vars(Serve(c))
-----------------------------------------------------------------------------
(* A descriptor that some structure still holds is open, and on what the    *)
(* structure was made for, though numbers are used again as soon as they    *)
(* are free: a callback reads its own socket, an answer goes to who asked,  *)
(* eptk_remove() by number finds the interface it was asked to remove, and  *)
(* an interface that nothing polls has not lost its number to another.      *)
NoStaleDescriptor ==
  /\ \A d \in {0, 1, 2} : d \in DOMAIN table /\ table[d] = Std
  /\ \A d \in DOMAIN polled :
       /\ d \in polled[d].fds /\ polled[d].fds \subseteq DOMAIN table
       /\ table[d] = polled[d].of
       /\ \A out \in polled[d].fds \ {d} : table[d] = Stdin /\ table[out] = Stdout
       /\ \A n \in Iface : polled[d].of = Raw(n) => n \in DOMAIN iface /\ iface[n] = d
  /\ \A n \in DOMAIN iface : iface[n] \in DOMAIN table /\ table[iface[n]] = Raw(n)

(* Whatever fails on the way, no descriptor is left open that nobody will   *)
(* close: the program does not run out of them by serving.                  *)
NoLostDescriptor ==
  pc = "loop" =>
    \A d \in DOMAIN table :
      \/ table[d] \in {Std, Epoll}
      \/ \E p \in DOMAIN polled : d \in polled[p].fds
      \/ d \in Range(iface)

(* At the end main(), eptk_free() and iface_free_all() between them have    *)
(* closed everything, interfaces whose socket failed or was never polled    *)
(* included, but for the interfaces with an abandoned reference: those are  *)
(* left listed, each with its socket, and no others; unless the program     *)
(* could not be started.                                                    *)
AllClosed ==
  pc = "exited" /\ err_cnt = 0 =>
    /\ DOMAIN iface = abandoned
    /\ DOMAIN table = {0, 1, 2} \cup Range(iface)

(* A client that is connected stays so until it hangs up or the program is  *)
(* told to end, whoever else fails to be served; unless another has hung up *)
(* before its answer, which ends the program by a signal.                   *)
ConnectionKept ==
  [][\A c \in Client :
       client[c] = <<"on">> /\ pc # "eptk_free" =>
         \/ client'[c] \in {<<"on">>, <<"off">>}
         \/ pc' = "killed" /\ \E d \in Client \ {c} : client[d] = <<"off">>]_vars

(* A client that waits at a listening socket is accepted or turned away,    *)
(* also when no descriptor is left to accept it with.                       *)
ClientNotLeftWaiting ==
  \A c \in Client : \A a \in Addr : client[c] = <<"waits", a>> ~> client[c] # <<"waits", a>>
=============================================================================
