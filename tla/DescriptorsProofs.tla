------------------------- MODULE DescriptorsProofs --------------------------
(***************************************************************************)
(* Theorems about Descriptors, for tables of any size and any number of    *)
(* listening sockets, clients and interfaces.                              *)
(***************************************************************************)
EXTENDS Descriptors, TLAPS

\* Who holds what, of a table t, registrations p and interfaces r.
Sound(t, p, r) ==
  /\ \A d \in {0, 1, 2} : d \in DOMAIN t /\ t[d] = Std
  /\ \A d \in DOMAIN t : t[d] = Std => d \in {0, 1, 2}
  /\ \A d \in DOMAIN p :
       /\ d \in p[d].fds /\ p[d].fds \subseteq DOMAIN t
       /\ t[d] = p[d].of
       /\ p[d].of \notin {Std, Epoll, Stdout}
       /\ \A out \in p[d].fds : out = d \/ (t[d] = Stdin /\ t[out] = Stdout)
       /\ \A n \in Iface : p[d].of = Raw(n) => n \in DOMAIN r /\ r[n] = d
  /\ \A d, e \in DOMAIN p : p[d].of = Stdin /\ p[e].of = Stdin => d = e
  /\ DOMAIN r \subseteq Iface
  /\ \A n \in DOMAIN r : r[n] \in DOMAIN t /\ t[r[n]] = Raw(n)

\* A descriptor that will be closed by whoever has it.
Kept(t, p, r, d) ==
  \/ t[d] \in {Std, Epoll}
  \/ \E e \in DOMAIN p : d \in p[e].fds
  \/ \E n \in DOMAIN r : r[n] = d

Running == {"options", "loop", "iface_new", "iface_parse"}

Opening ==
  /\ pc = "boot" =>
       DOMAIN table = {0, 1, 2} /\ DOMAIN polled = {} /\ DOMAIN iface = {} /\ err_cnt = 0
  /\ pc = "iface_new" =>
       /\ fresh \in DOMAIN table
       /\ \E n \in Iface : n \notin DOMAIN iface /\ table[fresh] = Raw(n)
  /\ pc = "iface_parse" => \E n \in DOMAIN iface : iface[n] = fresh

Ownership ==
  /\ pc \in Running \/ (pc \in {"free_all", "eptk_free"} /\ err_cnt = 0) =>
       \A d \in DOMAIN table :
         Kept(table, polled, iface, d) \/ (pc = "iface_new" /\ d = fresh)
  /\ pc \in {"destructor", "exited"} /\ err_cnt = 0 =>
       \A d \in DOMAIN table : d \in {0, 1, 2} \/ \E n \in DOMAIN iface : iface[n] = d
  /\ pc \in {"destructor", "exited"} => DOMAIN polled = {}
  /\ pc \in Running => err_cnt = 0

DescriptorsInv == Sound(table, polled, iface) /\ Opening /\ Ownership
-----------------------------------------------------------------------------
(* Facts about tables, registrations and interfaces. *)

\* Different things to be open on are different.
LEMMA FilesDiffer ==
  /\ \A n : Raw(n) \notin {Std, Epoll, Stdin, Stdout}
  /\ \A a : Listen(a) \notin {Std, Epoll, Stdin, Stdout}
  /\ \A c : Conn(c) \notin {Std, Epoll, Stdin, Stdout}
  /\ \A n, a : Raw(n) # Listen(a) /\ Raw(n) # Conn(a)
  /\ \A n, m : Raw(n) = Raw(m) => n = m
  /\ Std # Epoll /\ Std # Stdin /\ Std # Stdout
  /\ Epoll # Stdin /\ Epoll # Stdout /\ Stdin # Stdout
BY DEF Raw, Listen, Conn, Std, Epoll, Stdin, Stdout

\* Soundness looks only at the descriptors that are held.
LEMMA SoundAgrees ==
  ASSUME NEW t, NEW p, NEW r, NEW u, Sound(t, p, r),
         \A d \in {0, 1, 2} : d \in DOMAIN u /\ u[d] = t[d],
         \A e \in DOMAIN p : \A d \in p[e].fds : d \in DOMAIN u /\ u[d] = t[d],
         \A n \in DOMAIN r : r[n] \in DOMAIN u /\ u[r[n]] = t[r[n]],
         \A d \in DOMAIN u : u[d] = Std => d \in {0, 1, 2}
  PROVE  Sound(u, p, r)
BY DEF Sound

\* A descriptor more.
LEMMA OpenSound ==
  ASSUME NEW t, NEW p, NEW r, NEW u, NEW fd, NEW f, Sound(t, p, r), fd \notin DOMAIN t, f # Std,
         u = [d \in DOMAIN t \cup {fd} |-> IF d = fd THEN f ELSE t[d]]
  PROVE  /\ Sound(u, p, r)
         /\ DOMAIN u = DOMAIN t \cup {fd}
         /\ u[fd] = f
         /\ \A d \in DOMAIN t : u[d] = t[d] /\ d # fd
<1>1. DOMAIN u = DOMAIN t \cup {fd} /\ u[fd] = f /\ \A d \in DOMAIN t : u[d] = t[d] /\ d # fd
  OBVIOUS
<1>2. \A d \in DOMAIN u : u[d] = Std => d \in {0, 1, 2}
  BY <1>1 DEF Sound
<1>3. \A d \in {0, 1, 2} : d \in DOMAIN u /\ u[d] = t[d]
  BY <1>1 DEF Sound
<1>4. \A e \in DOMAIN p : \A d \in p[e].fds : d \in DOMAIN u /\ u[d] = t[d]
  BY <1>1 DEF Sound
<1>5. \A n \in DOMAIN r : r[n] \in DOMAIN u /\ u[r[n]] = t[r[n]]
  BY <1>1 DEF Sound
<1>6. Sound(u, p, r)
  BY <1>2, <1>3, <1>4, <1>5, SoundAgrees
<1> QED
  BY <1>1, <1>6

\* A registration more, of an open socket that closes itself.
LEMMA RegisterSound ==
  ASSUME NEW t, NEW p, NEW r, NEW q, NEW fd, Sound(t, p, r), fd \in DOMAIN t,
         t[fd] \notin {Std, Epoll, Stdin, Stdout},
         \A n \in Iface : t[fd] = Raw(n) => n \in DOMAIN r /\ r[n] = fd,
         q = [d \in DOMAIN p \cup {fd} |-> IF d = fd THEN [of |-> t[fd], fds |-> {fd}] ELSE p[d]]
  PROVE  /\ Sound(t, q, r)
         /\ \A d : Kept(t, p, r, d) \/ d = fd => Kept(t, q, r, d)
<1>1. DOMAIN q = DOMAIN p \cup {fd} /\ q[fd].of = t[fd] /\ q[fd].fds = {fd}
  OBVIOUS
<1>2. \A d \in DOMAIN p : d # fd => q[d] = p[d]
  OBVIOUS
<1>3. Sound(t, q, r)
  BY <1>1, <1>2, FilesDiffer DEF Sound
<1>4. ASSUME NEW d, Kept(t, p, r, d) \/ d = fd PROVE Kept(t, q, r, d)
  <2>1. CASE d = fd
    BY <1>1, <2>1 DEF Kept
  <2>2. CASE \E e \in DOMAIN p : d \in p[e].fds
    <3>1. PICK e \in DOMAIN p : d \in p[e].fds
      BY <2>2
    <3>2. CASE e = fd
      <4>1. t[fd] = p[fd].of /\ (d = fd \/ t[fd] = Stdin)
        BY <3>1, <3>2 DEF Sound
      <4> QED
        BY <2>1, <4>1
    <3>3. CASE e # fd
      BY <1>1, <1>2, <3>1, <3>3 DEF Kept
    <3> QED
      BY <3>2, <3>3
  <2> QED
    BY <1>4, <2>1, <2>2 DEF Kept
<1> QED
  BY <1>3, <1>4

\* No two registrations close the same descriptor, and no interface has it but its own.
LEMMA FdsDisjoint ==
  ASSUME NEW t, NEW p, NEW r, Sound(t, p, r), NEW e \in DOMAIN p, NEW d \in p[e].fds
  PROVE  /\ d \notin {0, 1, 2}
         /\ \A g \in DOMAIN p : d \in p[g].fds => g = e
         /\ \A n \in DOMAIN r : r[n] = d => d = e /\ p[e].of = Raw(n)
<1>1. /\ t[e] = p[e].of /\ p[e].of \notin {Std, Epoll, Stdout} /\ d \in DOMAIN t
      /\ d = e \/ (t[e] = Stdin /\ t[d] = Stdout)
  BY DEF Sound
<1>2. d \notin {0, 1, 2}
  BY <1>1, FilesDiffer DEF Sound
<1>3. ASSUME NEW g \in DOMAIN p, d \in p[g].fds PROVE g = e
  <2>1. /\ t[g] = p[g].of /\ p[g].of \notin {Std, Epoll, Stdout}
        /\ d = g \/ (t[g] = Stdin /\ t[d] = Stdout)
    BY <1>3 DEF Sound
  <2>2. p[g].of = Stdin /\ p[e].of = Stdin => g = e
    BY DEF Sound
  <2> QED
    BY <1>1, <2>1, <2>2
<1>4. ASSUME NEW n \in DOMAIN r, r[n] = d PROVE d = e /\ p[e].of = Raw(n)
  <2>1. t[d] = Raw(n)
    BY <1>4 DEF Sound
  <2> QED
    BY <1>1, <2>1, FilesDiffer
<1> QED
  BY <1>2, <1>3, <1>4

\* A registration less, and its descriptors; if it was an interface's, an interface less.
LEMMA ForgetSound ==
  ASSUME NEW t, NEW p, NEW r, NEW u, NEW q, NEW s, NEW fd \in DOMAIN p, Sound(t, p, r),
         DOMAIN q = DOMAIN p \ {fd}, \A d \in DOMAIN q : q[d] = p[d],
         DOMAIN u = DOMAIN t \ p[fd].fds, \A d \in DOMAIN u : u[d] = t[d],
         DOMAIN s \subseteq DOMAIN r, \A n \in DOMAIN s : s[n] = r[n],
         \A n \in DOMAIN r : n \in DOMAIN s <=> p[fd].of # Raw(n)
  PROVE  /\ Sound(u, q, s)
         /\ \A d \in DOMAIN u : d \in DOMAIN t /\ (Kept(t, p, r, d) => Kept(u, q, s, d))
<1>1. /\ DOMAIN q = DOMAIN p \ {fd} /\ \A d \in DOMAIN q : q[d] = p[d]
      /\ DOMAIN u = DOMAIN t \ p[fd].fds /\ \A d \in DOMAIN u : u[d] = t[d]
  OBVIOUS
<1>2. /\ DOMAIN s \subseteq DOMAIN r /\ \A n \in DOMAIN s : s[n] = r[n]
      /\ \A n \in DOMAIN r : p[fd].of # Raw(n) => n \in DOMAIN s
      /\ \A n \in DOMAIN s : p[fd].of # Raw(n)
  OBVIOUS
<1>3. \A d \in p[fd].fds :
        /\ d \notin {0, 1, 2}
        /\ \A g \in DOMAIN p : d \in p[g].fds => g = fd
        /\ \A n \in DOMAIN r : r[n] = d => d = fd /\ p[fd].of = Raw(n)
  BY FdsDisjoint
<1>4. Sound(t, q, s)
  <2>1. ASSUME NEW d \in DOMAIN q, NEW n \in Iface, q[d].of = Raw(n) PROVE n \in DOMAIN s /\ s[n] = d
    <3>0. d \in DOMAIN p /\ d # fd /\ p[d].of = Raw(n)
      BY <1>1, <2>1
    <3>1. n \in DOMAIN r /\ r[n] = d
      BY <3>0 DEF Sound
    <3>2. p[fd].of # Raw(n)
      BY <3>0, <3>1 DEF Sound
    <3> QED
      BY <1>2, <3>1, <3>2
  <2>2. DOMAIN s \subseteq Iface /\ \A n \in DOMAIN s : s[n] \in DOMAIN t /\ t[s[n]] = Raw(n)
    BY <1>2 DEF Sound
  <2>3. ASSUME NEW d \in DOMAIN q
        PROVE  /\ d \in q[d].fds /\ q[d].fds \subseteq DOMAIN t /\ t[d] = q[d].of
               /\ q[d].of \notin {Std, Epoll, Stdout}
               /\ \A out \in q[d].fds : out = d \/ (t[d] = Stdin /\ t[out] = Stdout)
    <3>1. d \in DOMAIN p /\ q[d] = p[d]
      BY <1>1
    <3> QED
      BY <3>1 DEF Sound
  <2>4. ASSUME NEW d \in DOMAIN q, NEW e \in DOMAIN q, q[d].of = Stdin, q[e].of = Stdin PROVE d = e
    <3>1. d \in DOMAIN p /\ e \in DOMAIN p /\ p[d].of = Stdin /\ p[e].of = Stdin
      BY <1>1, <2>4
    <3> QED
      BY <3>1 DEF Sound
  <2>5. /\ \A d \in {0, 1, 2} : d \in DOMAIN t /\ t[d] = Std
        /\ \A d \in DOMAIN t : t[d] = Std => d \in {0, 1, 2}
    BY DEF Sound
  <2> QED
    BY ONLY <2>1, <2>2, <2>3, <2>4, <2>5 DEF Sound
<1>5. Sound(u, q, s)
  <2>1. \A d \in {0, 1, 2} : d \in DOMAIN u /\ u[d] = t[d]
    BY <1>1, <1>3 DEF Sound
  <2>2. \A e \in DOMAIN q : \A d \in q[e].fds : d \in DOMAIN u /\ u[d] = t[d]
    BY <1>1, <1>3, <1>4 DEF Sound
  <2>3. \A n \in DOMAIN s : s[n] \in DOMAIN u /\ u[s[n]] = t[s[n]]
    BY <1>1, <1>2, <1>3 DEF Sound
  <2>4. \A d \in DOMAIN u : u[d] = Std => d \in {0, 1, 2}
    BY <1>1 DEF Sound
  <2> QED
    BY ONLY <1>4, <2>1, <2>2, <2>3, <2>4, SoundAgrees
<1>6. ASSUME NEW d \in DOMAIN u, Kept(t, p, r, d) PROVE Kept(u, q, s, d)
  <2>1. CASE t[d] \in {Std, Epoll}
    BY <1>1, <2>1 DEF Kept
  <2>2. CASE \E e \in DOMAIN p : d \in p[e].fds
    BY <1>1, <2>2 DEF Kept
  <2>3. CASE \E n \in DOMAIN r : r[n] = d
    <3>1. PICK n \in DOMAIN r : r[n] = d
      BY <2>3
    <3>2. p[fd].of # Raw(n)
      <4>1. fd \in p[fd].fds /\ (p[fd].of = Raw(n) => r[n] = fd)
        BY DEF Sound
      <4> QED
        BY <1>1, <3>1, <4>1
    <3> QED
      BY <1>2, <3>1, <3>2 DEF Kept
  <2> QED
    BY <1>6, <2>1, <2>2, <2>3 DEF Kept
<1> QED
  BY <1>1, <1>5, <1>6
-----------------------------------------------------------------------------
(* The references to interfaces. *)

\* An interface that is referred to is listed; at the end only the references
\* that nobody has are left, and only their interfaces.
Users ==
  /\ abandoned \subseteq busy
  /\ busy \subseteq DOMAIN iface
  /\ pc \in {"eptk_free", "destructor", "exited"} => busy = abandoned
  /\ pc = "exited" => DOMAIN iface = busy

\* The steps that leave the references and the list of interfaces alone.
LEMMA UsersIdle ==
  ASSUME Users, UNCHANGED <<iface, busy, abandoned>>,
         pc' = pc \/ pc' \notin {"eptk_free", "destructor", "exited"}
  PROVE  Users'
BY DEF Users

\* iface_free() refuses what is referred to, whoever calls it.
LEMMA UsersStay ==
  ASSUME Users, [Next]_vars
  PROVE  Users'
<1>1. CASE Starting \/ Kill \/ Stopped \/ UNCHANGED vars
  BY <1>1, UsersIdle DEF Starting, Boot, BootFails, Die, Usage, Loop, Netsock, NetsockFails, Kill, Stopped, vars
<1>2. CASE \E c \in Client : Serve(c) \/ Hangup(c) \/ \E a \in Addr : Connect(c, a)
  BY <1>2, UsersIdle DEF Serve, Accept, AcceptFails, Hangup, Connect
<1>3. ASSUME NEW fd \in Fd, EndOfStream(fd) \/ AnswerLost(fd) PROVE Users'
  <2>1. CASE EndOfStream(fd)
    BY <2>1, UsersIdle DEF EndOfStream
  <2>2. CASE AnswerLost(fd)
    BY <2>2 DEF AnswerLost, Restrict, Users
  <2> QED
    BY <1>3, <2>1, <2>2
<1>4. ASSUME NEW n \in Iface, IfaceNew(n) \/ Take(n) \/ LetGo(n) \/ Abandon(n) PROVE Users'
  <2>1. CASE IfaceNew(n)
    BY <2>1, UsersIdle DEF IfaceNew
  <2>2. CASE Take(n) \/ LetGo(n) \/ Abandon(n)
    BY <2>2 DEF Take, LetGo, Abandon, Users
  <2> QED
    BY <1>4, <2>1, <2>2
<1>5. ASSUME NEW n \in Iface, IfaceDel(n) \/ RecvError(n) PROVE Users'
  <2>1. CASE n \in busy
    BY <1>5, <2>1, UsersIdle DEF IfaceDel, RecvError
  <2>2. CASE n \notin busy
    <3>1. /\ pc = "loop" /\ pc' = pc /\ busy' = busy /\ abandoned' = abandoned
          /\ DOMAIN iface' = DOMAIN iface \ {n}
      BY <1>5, <2>2 DEF IfaceDel, RecvError, Restrict
    <3> QED
      BY <2>2, <3>1 DEF Users
  <2> QED
    BY <2>1, <2>2
<1>6. CASE IfaceAdding
  <2>1. CASE IfaceNewFails \/ IfaceRegistered \/ IfaceUnregistered
    BY <2>1, UsersIdle DEF IfaceNewFails, IfaceRegistered, IfaceUnregistered
  <2>2. ASSUME NEW n \in Iface, IfaceListed(n) PROVE Users'
    BY <2>2 DEF IfaceListed, Users
  <2> QED
    BY <1>6, <2>1, <2>2 DEF IfaceAdding
<1>7. CASE Ending
  <2>1. CASE FreeAll
    BY <2>1 DEF FreeAll, Users
  <2>2. CASE EptkFree
    <3>1. /\ pc = "eptk_free" /\ pc' = "destructor" /\ busy' = busy /\ abandoned' = abandoned
          /\ DOMAIN iface' = {n \in DOMAIN iface : iface[n] \notin DOMAIN polled \/ n \in busy}
      BY <2>2 DEF EptkFree, Restrict
    <3> QED
      BY <3>1 DEF Users
  <2>3. CASE IfaceFreeAll
    <3>1. /\ pc = "destructor" /\ pc' = "exited" /\ busy' = busy /\ abandoned' = abandoned
          /\ DOMAIN iface' = DOMAIN iface \cap busy
      BY <2>3 DEF IfaceFreeAll, Restrict
    <3> QED
      BY <3>1 DEF Users
  <2> QED
    BY <1>7, <2>1, <2>2, <2>3 DEF Ending
<1> QED
  BY <1>1, <1>2, <1>3, <1>4, <1>5, <1>6, <1>7 DEF Next

LEMMA UsersAlways == Spec => []Users
<1>1. Init => Users
  BY DEF Init, Users
<1>2. Users /\ [Next]_vars => Users'
  BY UsersStay
<1> QED
  BY <1>1, <1>2, PTL DEF Spec
-----------------------------------------------------------------------------
(* One lemma per action. *)

\* The steps that move nothing but the place in the program and the clients.
LEMMA IdleKeeps ==
  ASSUME DescriptorsInv, UNCHANGED <<table, polled, iface, fresh>>,
         \/ pc' = pc /\ err_cnt' = err_cnt
         \/ pc = "options" /\ pc' = "loop" /\ err_cnt' = err_cnt
         \/ pc = "options" /\ pc' = "free_all"
         \/ pc = "loop" /\ pc' = "free_all" /\ err_cnt' = err_cnt
         \/ pc = "free_all" /\ pc' = "eptk_free" /\ err_cnt' = err_cnt
  PROVE  DescriptorsInv'
<1>1. Sound(table, polled, iface)'
  BY DEF DescriptorsInv
<1>2. Opening'
  BY DEF DescriptorsInv, Opening
<1>3. \A d \in DOMAIN table : Kept(table, polled, iface, d)' <=> Kept(table, polled, iface, d)
  OBVIOUS
<1>4. Ownership'
  BY <1>3 DEF DescriptorsInv, Ownership, Running
<1> QED
  BY <1>1, <1>2, <1>4 DEF DescriptorsInv

\* The three descriptors of the start.
LEMMA ThreeOpen ==
  ASSUME DescriptorsInv, pc = "boot", NEW e \in Fd, NEW in \in Fd, NEW out \in Fd, Opens3(e, in, out)
  PROVE  /\ DOMAIN table' = {0, 1, 2} \cup {e, in, out}
         /\ e # in /\ in # out /\ e # out
         /\ \A d \in {0, 1, 2} : table'[d] = Std /\ d \notin {e, in, out}
         /\ table'[e] = Epoll /\ table'[in] = Stdin /\ table'[out] = Stdout
<1>1. DOMAIN table = {0, 1, 2} /\ \A d \in {0, 1, 2} : table[d] = Std
  BY DEF DescriptorsInv, Opening, Sound
<1>2. e # in /\ in # out /\ e # out
  BY RoomToStart DEF Opens3, Fd
<1>3. {e, in, out} \cap {0, 1, 2} = {}
  BY <1>1 DEF Opens3, Free
<1>4. table' = [d \in DOMAIN table \cup {e, in, out} |->
        IF d = e THEN Epoll ELSE IF d = in THEN Stdin ELSE IF d = out THEN Stdout ELSE table[d]]
  BY DEF Opens3
<1> QED
  BY <1>1, <1>2, <1>3, <1>4

\* main(): stdin and stdout are registered together.
LEMMA BootKeeps ==
  ASSUME DescriptorsInv, Boot
  PROVE  DescriptorsInv'
<1>1. PICK e, in, out \in Fd : Opens3(e, in, out) /\ Register(in, Stdin, {in, out})
  BY DEF Boot
<1>2. /\ DOMAIN table = {0, 1, 2} /\ DOMAIN polled = {} /\ DOMAIN iface = {} /\ err_cnt' = 0
      /\ iface' = iface /\ pc = "boot" /\ pc' = "options"
  BY DEF DescriptorsInv, Opening, Boot
<1>3. /\ DOMAIN table' = {0, 1, 2} \cup {e, in, out}
      /\ e # in /\ in # out /\ e # out
      /\ \A d \in {0, 1, 2} : table'[d] = Std /\ d \notin {e, in, out}
      /\ table'[e] = Epoll /\ table'[in] = Stdin /\ table'[out] = Stdout
  BY <1>1, <1>2, ThreeOpen
<1>4. DOMAIN polled' = {in} /\ polled'[in].of = Stdin /\ polled'[in].fds = {in, out}
  BY <1>1, <1>2 DEF Register
<1>5. Sound(table', polled', iface')
  <2>1. \A d \in DOMAIN table' : table'[d] = Std => d \in {0, 1, 2}
    BY <1>3, FilesDiffer
  <2>2. \A d \in {0, 1, 2} : d \in DOMAIN table' /\ table'[d] = Std
    BY <1>3
  <2>3. DOMAIN iface' = {}
    BY <1>2
  <2>4. ASSUME NEW d \in DOMAIN polled'
        PROVE  /\ d \in polled'[d].fds /\ polled'[d].fds \subseteq DOMAIN table'
               /\ table'[d] = polled'[d].of
               /\ polled'[d].of \notin {Std, Epoll, Stdout}
               /\ \A o \in polled'[d].fds : o = d \/ (table'[d] = Stdin /\ table'[o] = Stdout)
               /\ \A n \in Iface : polled'[d].of # Raw(n)
    BY <1>3, <1>4, FilesDiffer
  <2>5. \A d, f \in DOMAIN polled' : d = f
    BY <1>4
  <2> QED
    BY ONLY <2>1, <2>2, <2>3, <2>4, <2>5 DEF Sound
<1>6. Opening'
  BY <1>2 DEF Opening
<1>7. Ownership'
  <2>1. \A d \in DOMAIN table' : Kept(table', polled', iface', d)
    BY <1>3, <1>4 DEF Kept
  <2> QED
    BY <1>2, <2>1 DEF Ownership, Running
<1> QED
  BY <1>5, <1>6, <1>7 DEF DescriptorsInv

\* main() dies with what it has open; nothing that was held is touched.
LEMMA DieKeeps ==
  ASSUME DescriptorsInv, BootFails \/ \E a \in Addr : NetsockFails(a)
  PROVE  DescriptorsInv'
<1>1. pc' = "free_all" /\ err_cnt' = 1 /\ polled' = polled /\ iface' = iface
  BY DEF BootFails, NetsockFails, Die
<1>2. Sound(table', polled, iface)
  <2>1. CASE BootFails
    <3>1. PICK e, in, out \in Fd : Opens3(e, in, out)
      BY <2>1 DEF BootFails
    <3>0. pc = "boot"
      BY <2>1 DEF BootFails
    <3>2. /\ DOMAIN table' = {0, 1, 2} \cup {e, in, out}
          /\ \A d \in {0, 1, 2} : table'[d] = Std /\ d \notin {e, in, out}
          /\ table'[e] = Epoll /\ table'[in] = Stdin /\ table'[out] = Stdout
      BY <3>0, <3>1, ThreeOpen
    <3>3. DOMAIN polled = {} /\ DOMAIN iface = {} /\ Sound(table, polled, iface)
      BY <2>1 DEF BootFails, DescriptorsInv, Opening
    <3>4. \A d \in DOMAIN table' : table'[d] = Std => d \in {0, 1, 2}
      BY <3>2, FilesDiffer
    <3> QED
      BY ONLY <3>2, <3>3, <3>4 DEF Sound
  <2>2. ASSUME NEW a \in Addr, NetsockFails(a) PROVE Sound(table', polled, iface)
    <3>1. CASE table' = table
      BY <3>1 DEF DescriptorsInv
    <3>2. CASE table' # table
      <4>1. PICK fd \in Fd : Opens(fd) /\ Open(fd, Listen(a))
        BY <2>2, <3>2 DEF NetsockFails
      <4> QED
        BY <4>1, OpenSound, FilesDiffer DEF Opens, Open, Free, DescriptorsInv
    <3> QED
      BY <3>1, <3>2
  <2> QED
    BY <2>1, <2>2
<1>3. Opening' /\ Ownership'
  BY <1>1 DEF Opening, Ownership, Running
<1> QED
  BY <1>1, <1>2, <1>3 DEF DescriptorsInv

\* netsock() and netsock_callback(): a socket is opened and registered.
LEMMA SocketKeeps ==
  ASSUME DescriptorsInv, pc \in {"options", "loop"}, pc' = pc, err_cnt' = err_cnt, iface' = iface,
         NEW fd, NEW f, Opens(fd), Open(fd, f), Register(fd, f, {fd}),
         f \notin {Std, Epoll, Stdin, Stdout}, \A n : f # Raw(n)
  PROVE  DescriptorsInv'
<1>1. Sound(table, polled, iface) /\ fd \notin DOMAIN table
  BY DEF DescriptorsInv, Opens, Free
<1>2. /\ Sound(table', polled, iface) /\ DOMAIN table' = DOMAIN table \cup {fd} /\ table'[fd] = f
      /\ \A d \in DOMAIN table : table'[d] = table[d] /\ d # fd
  <2>1. PICK u : u = table'
    OBVIOUS
  <2>2. u = [d \in DOMAIN table \cup {fd} |-> IF d = fd THEN f ELSE table[d]] /\ f # Std
    BY <2>1 DEF Open
  <2>3. /\ Sound(u, polled, iface) /\ DOMAIN u = DOMAIN table \cup {fd} /\ u[fd] = f
        /\ \A d \in DOMAIN table : u[d] = table[d] /\ d # fd
    BY ONLY <1>1, <2>2, OpenSound
  <2> QED
    BY <2>1, <2>3
<1>3. /\ Sound(table', polled', iface)
      /\ \A d : Kept(table', polled, iface, d) \/ d = fd => Kept(table', polled', iface, d)
  <2>1. PICK u : u = table'
    OBVIOUS
  <2>2. PICK q : q = polled'
    OBVIOUS
  <2>3. /\ Sound(u, polled, iface) /\ fd \in DOMAIN u /\ u[fd] \notin {Std, Epoll, Stdin, Stdout}
        /\ \A n \in Iface : u[fd] = Raw(n) => n \in DOMAIN iface /\ iface[n] = fd
    BY <1>2, <2>1
  <2>4. q = [d \in DOMAIN polled \cup {fd} |->
               IF d = fd THEN [of |-> u[fd], fds |-> {fd}] ELSE polled[d]]
    BY <1>2, <2>1, <2>2 DEF Register
  <2>5. /\ Sound(u, q, iface)
        /\ \A d : Kept(u, polled, iface, d) \/ d = fd => Kept(u, q, iface, d)
    BY ONLY <2>3, <2>4, RegisterSound
  <2> QED
    BY <2>1, <2>2, <2>5
<1>4. \A d \in DOMAIN table : Kept(table, polled, iface, d)
  BY DEF DescriptorsInv, Ownership, Running
<1>5. \A d \in DOMAIN table' : Kept(table', polled', iface', d)
  <2>1. \A d \in DOMAIN table : Kept(table', polled, iface, d)
    BY <1>2, <1>4 DEF Kept
  <2> QED
    BY <1>2, <1>3, <2>1
<1>6. Opening' /\ Ownership'
  BY <1>5 DEF DescriptorsInv, Opening, Ownership, Running
<1> QED
  BY <1>3, <1>6 DEF DescriptorsInv

\* A callback that returns 1, and eptk_remove().
LEMMA ForgetKeeps ==
  ASSUME DescriptorsInv, pc = "loop", pc' = pc, err_cnt' = err_cnt, NEW fd \in DOMAIN polled, Forget(fd),
         \/ iface' = iface /\ \A n \in DOMAIN iface : polled[fd].of # Raw(n)
         \/ \E n \in DOMAIN iface : polled[fd].of = Raw(n) /\ iface' = Restrict(iface, DOMAIN iface \ {n})
  PROVE  DescriptorsInv'
<1>1. /\ Sound(table', polled', iface')
      /\ \A d \in DOMAIN table' :
           d \in DOMAIN table /\ (Kept(table, polled, iface, d) => Kept(table', polled', iface', d))
  <2>1. PICK u : u = table'
    OBVIOUS
  <2>2. PICK q : q = polled'
    OBVIOUS
  <2>3. PICK s : s = iface'
    OBVIOUS
  <2>4. Sound(table, polled, iface)
    BY DEF DescriptorsInv
  <2>5. /\ DOMAIN q = DOMAIN polled \ {fd} /\ \A d \in DOMAIN q : q[d] = polled[d]
        /\ DOMAIN u = DOMAIN table \ polled[fd].fds /\ \A d \in DOMAIN u : u[d] = table[d]
    BY <2>1, <2>2 DEF Forget, Close, Restrict
  <2>6. /\ DOMAIN s \subseteq DOMAIN iface /\ \A n \in DOMAIN s : s[n] = iface[n]
        /\ \A n \in DOMAIN iface : n \in DOMAIN s <=> polled[fd].of # Raw(n)
    BY <2>3, FilesDiffer DEF Restrict
  <2>7. fd \in DOMAIN polled
    OBVIOUS
  <2>8. /\ Sound(u, q, s)
        /\ \A d \in DOMAIN u :
             d \in DOMAIN table /\ (Kept(table, polled, iface, d) => Kept(u, q, s, d))
    BY ONLY <2>4, <2>5, <2>6, <2>7, ForgetSound
  <2> QED
    BY <2>1, <2>2, <2>3, <2>8
<1>2. \A d \in DOMAIN table' : Kept(table', polled', iface', d)
  BY <1>1 DEF DescriptorsInv, Ownership, Running
<1>3. Opening' /\ Ownership'
  BY <1>2 DEF DescriptorsInv, Opening, Ownership, Running
<1> QED
  BY <1>1, <1>3 DEF DescriptorsInv

\* iface_new(): a socket more, that is the callback's own for now.
LEMMA IfaceNewKeeps ==
  ASSUME DescriptorsInv, NEW n \in Iface, IfaceNew(n)
  PROVE  DescriptorsInv'
<1>1. PICK fd \in Fd : Opens(fd) /\ Open(fd, Raw(n)) /\ fresh' = fd
  BY DEF IfaceNew
<1>2. /\ pc = "loop" /\ pc' = "iface_new" /\ n \notin DOMAIN iface
      /\ polled' = polled /\ iface' = iface /\ err_cnt' = err_cnt
  BY DEF IfaceNew
<1>3. Sound(table, polled, iface) /\ fd \notin DOMAIN table /\ Raw(n) # Std
  BY <1>1, FilesDiffer DEF DescriptorsInv, Opens, Free
<1>4. /\ Sound(table', polled, iface) /\ DOMAIN table' = DOMAIN table \cup {fd} /\ table'[fd] = Raw(n)
      /\ \A d \in DOMAIN table : table'[d] = table[d]
  <2>1. PICK u : u = table'
    OBVIOUS
  <2>2. u = [d \in DOMAIN table \cup {fd} |-> IF d = fd THEN Raw(n) ELSE table[d]]
    BY <1>1, <2>1 DEF Open
  <2>3. PICK f : f = Raw(n)
    OBVIOUS
  <2>4. /\ Sound(u, polled, iface) /\ DOMAIN u = DOMAIN table \cup {fd} /\ u[fd] = f
        /\ \A d \in DOMAIN table : u[d] = table[d] /\ d # fd
    BY ONLY <1>3, <2>2, <2>3, OpenSound
  <2> QED
    BY <2>1, <2>3, <2>4
<1>5. Opening'
  BY <1>1, <1>2, <1>4 DEF Opening
<1>6. \A d \in DOMAIN table : Kept(table, polled, iface, d)
  BY <1>2 DEF DescriptorsInv, Ownership, Running
<1>7. \A d \in DOMAIN table' : Kept(table', polled', iface', d) \/ d = fresh'
  BY <1>1, <1>2, <1>4, <1>6 DEF Kept
<1>8. Ownership'
  BY <1>2, <1>7 DEF DescriptorsInv, Ownership, Running
<1> QED
  BY <1>2, <1>4, <1>5, <1>8 DEF DescriptorsInv

\* iface_new() fails: iface_free() closes a descriptor that nobody else has.
LEMMA IfaceNewFailsKeeps ==
  ASSUME DescriptorsInv, IfaceNewFails
  PROVE  DescriptorsInv'
<1>1. /\ pc = "iface_new" /\ pc' = "loop" /\ polled' = polled /\ iface' = iface /\ err_cnt' = err_cnt
      /\ Sound(table, polled, iface)
  BY DEF IfaceNewFails, DescriptorsInv
<1>2. PICK n \in Iface : n \notin DOMAIN iface /\ table[fresh] = Raw(n)
  BY <1>1 DEF DescriptorsInv, Opening
<1>3. DOMAIN table' = DOMAIN table \ {fresh} /\ \A d \in DOMAIN table' : table'[d] = table[d]
  BY DEF IfaceNewFails, Close, Restrict
<1>4. Sound(table', polled, iface)
  <2>1. \A d \in {0, 1, 2} : d \in DOMAIN table' /\ table'[d] = table[d]
    <3>1. \A d \in {0, 1, 2} : d \in DOMAIN table /\ table[d] = Std
      BY <1>1 DEF Sound
    <3> QED
      BY <1>2, <1>3, <3>1, FilesDiffer
  <2>2. ASSUME NEW e \in DOMAIN polled, NEW d \in polled[e].fds
        PROVE  d \in DOMAIN table' /\ table'[d] = table[d]
    <3>1. /\ d \in DOMAIN table /\ table[e] = polled[e].of
          /\ d = e \/ table[d] = Stdout
          /\ \A m \in Iface : polled[e].of = Raw(m) => m \in DOMAIN iface
      BY <1>1 DEF Sound
    <3> QED
      BY <1>2, <1>3, <3>1, FilesDiffer
  <2>3. ASSUME NEW m \in DOMAIN iface
        PROVE  iface[m] \in DOMAIN table' /\ table'[iface[m]] = table[iface[m]]
    <3>1. iface[m] \in DOMAIN table /\ table[iface[m]] = Raw(m)
      BY <1>1 DEF Sound
    <3> QED
      BY <1>2, <1>3, <3>1, FilesDiffer
  <2>4. \A d \in DOMAIN table' : table'[d] = Std => d \in {0, 1, 2}
    BY <1>1, <1>3 DEF Sound
  <2>5. PICK u : u = table'
    OBVIOUS
  <2>6. /\ \A d \in {0, 1, 2} : d \in DOMAIN u /\ u[d] = table[d]
        /\ \A e \in DOMAIN polled : \A d \in polled[e].fds : d \in DOMAIN u /\ u[d] = table[d]
        /\ \A m \in DOMAIN iface : iface[m] \in DOMAIN u /\ u[iface[m]] = table[iface[m]]
        /\ \A d \in DOMAIN u : u[d] = Std => d \in {0, 1, 2}
    BY <2>1, <2>2, <2>3, <2>4, <2>5
  <2>7. Sound(u, polled, iface)
    BY ONLY <1>1, <2>6, SoundAgrees
  <2> QED
    BY <2>5, <2>7
<1>5. \A d \in DOMAIN table : Kept(table, polled, iface, d) \/ d = fresh
  BY <1>1 DEF DescriptorsInv, Ownership, Running
<1>6. \A d \in DOMAIN table' : Kept(table', polled', iface', d)
  BY <1>1, <1>3, <1>5 DEF Kept
<1>7. Opening' /\ Ownership'
  BY <1>1, <1>6 DEF DescriptorsInv, Opening, Ownership, Running
<1> QED
  BY <1>1, <1>4, <1>7 DEF DescriptorsInv

\* iface_new() succeeds: the interface is listed before it is polled.
LEMMA IfaceListedKeeps ==
  ASSUME DescriptorsInv, NEW n \in Iface, IfaceListed(n)
  PROVE  DescriptorsInv'
<1>1. /\ pc = "iface_new" /\ pc' = "iface_parse" /\ table' = table /\ polled' = polled
      /\ fresh' = fresh /\ err_cnt' = err_cnt /\ table[fresh] = Raw(n)
      /\ Sound(table, polled, iface)
  BY DEF IfaceListed, DescriptorsInv
<1>2. fresh \in DOMAIN table /\ n \notin DOMAIN iface
  BY <1>1, FilesDiffer DEF DescriptorsInv, Opening
<1>3. /\ DOMAIN iface' = DOMAIN iface \cup {n} /\ iface'[n] = fresh
      /\ \A m \in DOMAIN iface : iface'[m] = iface[m]
  BY <1>2 DEF IfaceListed
<1>4. Sound(table, polled, iface')
  BY <1>1, <1>2, <1>3 DEF Sound
<1>5. \A d \in DOMAIN table : Kept(table, polled, iface, d) \/ d = fresh
  BY <1>1 DEF DescriptorsInv, Ownership, Running
<1>6. \A d \in DOMAIN table' : Kept(table', polled', iface', d)
  BY <1>1, <1>3, <1>5 DEF Kept
<1>7. Opening' /\ Ownership'
  BY <1>1, <1>3, <1>6 DEF DescriptorsInv, Opening, Ownership, Running
<1> QED
  BY <1>1, <1>4, <1>7 DEF DescriptorsInv

\* iface_parse(): the interface is polled, or is not.
LEMMA IfaceParseKeeps ==
  ASSUME DescriptorsInv, IfaceRegistered \/ IfaceUnregistered
  PROVE  DescriptorsInv'
<1>1. /\ pc = "iface_parse" /\ pc' = "loop" /\ table' = table /\ iface' = iface /\ err_cnt' = err_cnt
      /\ Sound(table, polled, iface)
  BY DEF IfaceRegistered, IfaceUnregistered, DescriptorsInv
<1>2. PICK n \in DOMAIN iface : iface[n] = fresh
  BY <1>1 DEF DescriptorsInv, Opening
<1>3. \A d \in DOMAIN table : Kept(table, polled, iface, d)
  BY <1>1 DEF DescriptorsInv, Ownership, Running
<1>4. Sound(table, polled', iface) /\ \A d \in DOMAIN table : Kept(table, polled', iface, d)
  <2>1. CASE IfaceUnregistered
    BY <1>1, <1>3, <2>1 DEF IfaceUnregistered
  <2>2. CASE IfaceRegistered
    <3>1. PICK q : q = polled'
      OBVIOUS
    <3>2. q = [d \in DOMAIN polled \cup {fresh} |->
                 IF d = fresh THEN [of |-> table[fresh], fds |-> {fresh}] ELSE polled[d]]
      BY <2>2, <3>1 DEF IfaceRegistered, Register
    <3>3. n \in Iface /\ fresh \in DOMAIN table /\ table[fresh] = Raw(n)
      BY <1>1, <1>2 DEF Sound
    <3>4. /\ table[fresh] \notin {Std, Epoll, Stdin, Stdout}
          /\ \A m \in Iface : table[fresh] = Raw(m) => m \in DOMAIN iface /\ iface[m] = fresh
      BY <1>2, <3>3, FilesDiffer
    <3>5. /\ Sound(table, q, iface)
          /\ \A d : Kept(table, polled, iface, d) \/ d = fresh => Kept(table, q, iface, d)
      BY ONLY <1>1, <3>2, <3>3, <3>4, RegisterSound
    <3> QED
      BY <1>3, <3>1, <3>5
  <2> QED
    BY <2>1, <2>2
<1>5. Opening' /\ Ownership'
  BY <1>1, <1>4 DEF DescriptorsInv, Opening, Ownership, Running
<1> QED
  BY <1>1, <1>4, <1>5 DEF DescriptorsInv

\* iface_callback() returns 1: an interface in use keeps its descriptor.
LEMMA RecvErrorKeeps ==
  ASSUME DescriptorsInv, NEW n \in Iface, RecvError(n)
  PROVE  DescriptorsInv'
<1>1. /\ pc = "loop" /\ pc' = pc /\ err_cnt' = err_cnt
      /\ n \in DOMAIN iface /\ iface[n] \in DOMAIN polled /\ Sound(table, polled, iface)
  BY DEF RecvError, DescriptorsInv
<1>2. polled[iface[n]].of = Raw(n)
  BY <1>1 DEF Sound
<1>3. CASE n \notin busy
  <2>1. PICK fd : fd = iface[n]
    OBVIOUS
  <2>2. fd \in DOMAIN polled /\ Forget(fd) /\ polled[fd].of = Raw(n)
    BY <1>1, <1>2, <1>3, <2>1 DEF RecvError
  <2>3. \E m \in DOMAIN iface : polled[fd].of = Raw(m) /\ iface' = Restrict(iface, DOMAIN iface \ {m})
    BY <1>1, <1>3, <2>2 DEF RecvError
  <2> QED
    BY <1>1, <2>2, <2>3, ForgetKeeps
<1>4. CASE n \in busy
  <2>1. table' = table /\ iface' = iface
    BY <1>4 DEF RecvError
  <2>2. DOMAIN polled' = DOMAIN polled \ {iface[n]} /\ \A d \in DOMAIN polled' : polled'[d] = polled[d]
    BY <1>4 DEF RecvError, Restrict
  <2>3. Sound(table, polled', iface)
    BY <1>1, <2>2 DEF Sound
  <2>4. \A d \in polled[iface[n]].fds : d = iface[n]
    BY <1>1, <1>2, FilesDiffer DEF Sound
  <2>5. \A d \in DOMAIN table : Kept(table, polled, iface, d)
    BY <1>1 DEF DescriptorsInv, Ownership, Running
  <2>6. \A d \in DOMAIN table : Kept(table, polled', iface, d)
    BY <1>1, <2>2, <2>4, <2>5 DEF Kept
  <2>7. Opening' /\ Ownership'
    BY <1>1, <2>1, <2>6 DEF DescriptorsInv, Opening, Ownership, Running
  <2> QED
    BY <2>1, <2>3, <2>7 DEF DescriptorsInv
<1> QED
  BY <1>3, <1>4

\* eptk_free(): what remains are the interfaces that were not polled.
LEMMA EptkFreeKeeps ==
  ASSUME DescriptorsInv, Users, EptkFree
  PROVE  DescriptorsInv'
<1>1. /\ pc = "eptk_free" /\ pc' = "destructor" /\ err_cnt' = err_cnt /\ Sound(table, polled, iface)
  BY DEF EptkFree, DescriptorsInv
<1>2. PICK all : all = Tracked
  OBVIOUS
<1>3. DOMAIN table' = DOMAIN table \ all /\ \A d \in DOMAIN table' : table'[d] = table[d]
  BY <1>2 DEF EptkFree, Close, Restrict
<1>4. /\ DOMAIN polled' = {}
      /\ DOMAIN iface' = {n \in DOMAIN iface : iface[n] \notin DOMAIN polled \/ n \in busy}
      /\ \A n \in DOMAIN iface' : iface'[n] = iface[n]
  BY DEF EptkFree, Restrict
<1>5. \A d \in DOMAIN table :
        d \in all <=>
          \/ table[d] = Epoll
          \/ \E e \in DOMAIN polled : d \in polled[e].fds /\ \A n \in busy : polled[e].of # Raw(n)
  BY <1>2 DEF Tracked
<1>6. ASSUME NEW e \in DOMAIN polled, NEW d \in polled[e].fds
      PROVE  d \notin {0, 1, 2} /\ \A n \in DOMAIN iface : iface[n] = d => d = e /\ polled[e].of = Raw(n)
  BY <1>1, FdsDisjoint
<1>7. Sound(table', polled', iface')
  <2>1. \A d \in {0, 1, 2} : d \in DOMAIN table' /\ table'[d] = Std
    <3>1. \A d \in {0, 1, 2} : d \in DOMAIN table /\ table[d] = Std
      BY <1>1 DEF Sound
    <3>2. \A d \in {0, 1, 2} : d \notin all
      BY <1>5, <1>6, <3>1, FilesDiffer
    <3> QED
      BY <1>3, <3>1, <3>2
  <2>2. \A d \in DOMAIN table' : table'[d] = Std => d \in {0, 1, 2}
    BY <1>1, <1>3 DEF Sound
  <2>3. ASSUME NEW n \in DOMAIN iface' PROVE iface'[n] \in DOMAIN table' /\ table'[iface'[n]] = Raw(n)
    <3>1. /\ n \in DOMAIN iface /\ iface'[n] = iface[n] /\ (iface[n] \notin DOMAIN polled \/ n \in busy)
          /\ iface[n] \in DOMAIN table /\ table[iface[n]] = Raw(n)
      BY <1>1, <1>4 DEF Sound
    <3>2. iface[n] \notin all
      BY <1>5, <1>6, <3>1, FilesDiffer
    <3> QED
      BY <1>3, <3>1, <3>2
  <2>4. DOMAIN iface' \subseteq Iface
    BY <1>1, <1>4 DEF Sound
  <2> QED
    BY ONLY <1>4, <2>1, <2>2, <2>3, <2>4 DEF Sound
<1>8. ASSUME err_cnt = 0, NEW d \in DOMAIN table'
      PROVE  d \in {0, 1, 2} \/ \E n \in DOMAIN iface' : iface'[n] = d
  <2>1. d \in DOMAIN table /\ d \notin all
    BY <1>3
  <2>2. Kept(table, polled, iface, d)
    BY <1>1, <1>8, <2>1 DEF DescriptorsInv, Ownership, Running
  <2>3. CASE table[d] = Std
    BY <1>1, <2>1, <2>3 DEF Sound
  <2>4. ASSUME NEW n \in DOMAIN iface, iface[n] = d PROVE n \in DOMAIN iface' /\ iface'[n] = d
    <3>1. d \in DOMAIN polled => d \in polled[d].fds /\ polled[d].of = table[d]
      BY <1>1 DEF Sound
    <3>2. table[d] = Raw(n)
      BY <1>1, <2>4 DEF Sound
    <3>3. d \notin DOMAIN polled \/ n \in busy
      BY <1>5, <2>1, <3>1, <3>2, FilesDiffer
    <3> QED
      BY <1>4, <2>4, <3>3
  <2>5. ASSUME NEW e \in DOMAIN polled, d \in polled[e].fds
        PROVE  \E n \in DOMAIN iface : iface[n] = d
    <3>1. PICK n \in busy : polled[e].of = Raw(n)
      BY <1>5, <2>1, <2>5
    <3>2. d = e /\ table[d] = Raw(n)
      BY <1>1, <2>5, <3>1, FilesDiffer DEF Sound
    <3>3. n \in Iface
      BY <1>1, <3>1 DEF Users, Sound
    <3> QED
      BY <1>1, <3>1, <3>2, <3>3 DEF Sound
  <2>6. table[d] # Epoll
    BY <1>5, <2>1
  <2> QED
    BY <2>2, <2>3, <2>4, <2>5, <2>6 DEF Kept
<1>9. Opening' /\ Ownership'
  BY <1>1, <1>4, <1>8 DEF Opening, Ownership, Running
<1> QED
  BY <1>7, <1>9 DEF DescriptorsInv

\* iface_free_all(): and of those the ones that nobody refers to.
LEMMA IfaceFreeAllKeeps ==
  ASSUME DescriptorsInv, IfaceFreeAll
  PROVE  DescriptorsInv'
<1>1. /\ pc = "destructor" /\ pc' = "exited" /\ err_cnt' = err_cnt /\ polled' = polled
      /\ DOMAIN polled = {} /\ Sound(table, polled, iface)
  BY DEF IfaceFreeAll, DescriptorsInv, Ownership
<1>2. /\ DOMAIN iface' \subseteq DOMAIN iface
      /\ \A n \in DOMAIN iface : n \in DOMAIN iface' <=> n \in busy
      /\ \A n \in DOMAIN iface' : iface'[n] = iface[n]
  BY DEF IfaceFreeAll, Restrict
<1>3. PICK idle : idle = {iface[n] : n \in DOMAIN iface \ busy}
  OBVIOUS
<1>4. DOMAIN table' = DOMAIN table \ idle /\ \A d \in DOMAIN table' : table'[d] = table[d]
  BY <1>3 DEF IfaceFreeAll, Close, Restrict
<1>5. \A d \in {0, 1, 2} : d \in DOMAIN table' /\ table'[d] = Std
  <2>1. \A d \in {0, 1, 2} : d \in DOMAIN table /\ table[d] = Std
    BY <1>1 DEF Sound
  <2>2. \A n \in DOMAIN iface : table[iface[n]] = Raw(n)
    BY <1>1 DEF Sound
  <2>3. \A d \in {0, 1, 2} : d \notin idle
    BY <1>3, <2>1, <2>2, FilesDiffer
  <2> QED
    BY <1>4, <2>1, <2>3
<1>6. \A d \in DOMAIN table' : table'[d] = Std => d \in {0, 1, 2}
  BY <1>1, <1>4 DEF Sound
<1>7. ASSUME NEW n \in DOMAIN iface' PROVE n \in Iface /\ iface'[n] \in DOMAIN table' /\ table'[iface'[n]] = Raw(n)
  <2>1. /\ n \in Iface /\ n \in DOMAIN iface /\ n \in busy /\ iface'[n] = iface[n]
        /\ iface[n] \in DOMAIN table /\ table[iface[n]] = Raw(n)
    BY <1>1, <1>2 DEF Sound
  <2>2. ASSUME NEW m \in DOMAIN iface \ busy PROVE iface[m] # iface[n]
    <3>1. table[iface[m]] = Raw(m)
      BY <1>1 DEF Sound
    <3> QED
      BY <2>1, <3>1, FilesDiffer
  <2> QED
    BY <1>3, <1>4, <2>1, <2>2
<1>8. Sound(table', polled', iface')
  BY ONLY <1>1, <1>5, <1>6, <1>7 DEF Sound
<1>9. ASSUME err_cnt = 0, NEW d \in DOMAIN table'
      PROVE  d \in {0, 1, 2} \/ \E n \in DOMAIN iface' : iface'[n] = d
  <2>1. d \in DOMAIN table /\ d \notin idle
    BY <1>4
  <2>2. d \in {0, 1, 2} \/ \E n \in DOMAIN iface : iface[n] = d
    BY <1>1, <1>9, <2>1 DEF DescriptorsInv, Ownership
  <2> QED
    BY <1>2, <1>3, <2>1, <2>2
<1>10. Opening' /\ Ownership'
  BY <1>1, <1>9 DEF Opening, Ownership, Running
<1> QED
  BY <1>8, <1>10 DEF DescriptorsInv

\* SIGPIPE: nothing is held any more, and nothing is open.
LEMMA AnswerLostKeeps ==
  ASSUME DescriptorsInv, NEW fd, AnswerLost(fd)
  PROVE  DescriptorsInv'
<1>1. pc' = "killed" /\ DOMAIN polled' = {} /\ DOMAIN iface' = {} /\ Sound(table, polled, iface)
  BY DEF AnswerLost, Restrict, DescriptorsInv
<1>2. DOMAIN table' = DOMAIN table \cap {0, 1, 2} /\ \A d \in DOMAIN table' : table'[d] = table[d]
  BY DEF AnswerLost, Close, Restrict
<1>3. \A d \in {0, 1, 2} : d \in DOMAIN table' /\ table'[d] = Std
  BY <1>1, <1>2 DEF Sound
<1>4. \A d \in DOMAIN table' : d \in {0, 1, 2}
  BY <1>2
<1>5. Sound(table', polled', iface')
  BY ONLY <1>1, <1>3, <1>4 DEF Sound
<1>6. Opening' /\ Ownership'
  BY <1>1 DEF Opening, Ownership, Running
<1> QED
  BY <1>5, <1>6 DEF DescriptorsInv
-----------------------------------------------------------------------------
(* Every descriptor that is held is open on what it is held for, and every
   descriptor that is open is held, by the steps of main() and of the
   callbacks whatever fails. *)
THEOREM DescriptorsSafe == Spec => []DescriptorsInv
<1>1. Init => DescriptorsInv
  <2> SUFFICES ASSUME Init PROVE DescriptorsInv
    OBVIOUS
  <2>1. /\ DOMAIN table = {0, 1, 2} /\ \A d \in {0, 1, 2} : table[d] = Std
        /\ DOMAIN polled = {} /\ DOMAIN iface = {} /\ err_cnt = 0 /\ pc = "boot"
    BY DEF Init
  <2>2. Sound(table, polled, iface)
    BY <2>1 DEF Sound
  <2>3. Opening /\ Ownership
    BY <2>1 DEF Opening, Ownership, Running
  <2> QED
    BY <2>2, <2>3 DEF DescriptorsInv
<1>2. DescriptorsInv /\ Users /\ [Next]_vars => DescriptorsInv'
  <2> SUFFICES ASSUME DescriptorsInv, Users, [Next]_vars PROVE DescriptorsInv'
    OBVIOUS
  <2>1. CASE Boot \/ BootFails \/ \E a \in Addr : NetsockFails(a)
    BY <2>1, BootKeeps, DieKeeps
  <2>2. ASSUME NEW a \in Addr, Netsock(a) PROVE DescriptorsInv'
    <3>1. PICK fd \in Fd : Opens(fd) /\ Open(fd, Listen(a)) /\ Register(fd, Listen(a), {fd})
      BY <2>2 DEF Netsock
    <3>2. PICK f : f = Listen(a)
      OBVIOUS
    <3>3. f \notin {Std, Epoll, Stdin, Stdout} /\ \A n : f # Raw(n)
      BY <3>2, FilesDiffer
    <3> QED
      BY <2>2, <3>1, <3>2, <3>3, SocketKeeps DEF Netsock
  <2>3. ASSUME NEW c \in Client, NEW fd \in Fd, Accept(fd, c) PROVE DescriptorsInv'
    <3>1. PICK newfd \in Fd : Opens(newfd) /\ Open(newfd, Conn(c)) /\ Register(newfd, Conn(c), {newfd})
      BY <2>3 DEF Accept
    <3>2. PICK f : f = Conn(c)
      OBVIOUS
    <3>3. f \notin {Std, Epoll, Stdin, Stdout} /\ \A n : f # Raw(n)
      BY <3>2, FilesDiffer
    <3> QED
      BY <2>3, <3>1, <3>2, <3>3, SocketKeeps DEF Accept
  <2>4. ASSUME NEW fd \in Fd, EndOfStream(fd) \/ \E c \in Client : AcceptFails(fd, c)
        PROVE  DescriptorsInv'
    <3>1. /\ pc = "loop" /\ pc' = pc /\ err_cnt' = err_cnt /\ iface' = iface
          /\ fd \in DOMAIN polled /\ Forget(fd)
      BY <2>4 DEF EndOfStream, AcceptFails
    <3>2. \A n : polled[fd].of # Raw(n)
      BY <2>4, FilesDiffer DEF EndOfStream, AcceptFails
    <3> QED
      BY <3>1, <3>2, ForgetKeeps
  <2>5. ASSUME NEW n \in Iface, IfaceDel(n) PROVE DescriptorsInv'
    <3>1. PICK fd : fd = iface[n]
      OBVIOUS
    <3>2. /\ pc = "loop" /\ pc' = pc /\ err_cnt' = err_cnt /\ n \in DOMAIN iface
          /\ fd \in DOMAIN polled /\ Forget(fd) /\ iface' = Restrict(iface, DOMAIN iface \ {n})
      BY <2>5, <3>1 DEF IfaceDel
    <3>3. polled[fd].of = Raw(n)
      BY <3>1, <3>2 DEF DescriptorsInv, Sound
    <3> QED
      BY <3>2, <3>3, ForgetKeeps
  <2>6. ASSUME NEW n \in Iface, IfaceNew(n) \/ RecvError(n) \/ IfaceListed(n) PROVE DescriptorsInv'
    BY <2>6, IfaceNewKeeps, RecvErrorKeeps, IfaceListedKeeps
  <2>7. CASE IfaceNewFails \/ IfaceRegistered \/ IfaceUnregistered
    BY <2>7, IfaceNewFailsKeeps, IfaceParseKeeps
  <2>8. CASE EptkFree \/ IfaceFreeAll
    BY <2>8, EptkFreeKeeps, IfaceFreeAllKeeps
  <2>9. CASE Usage \/ Loop \/ Kill \/ FreeAll \/ Stopped \/ UNCHANGED vars
    BY <2>9, IdleKeeps DEF Usage, Loop, Kill, FreeAll, Stopped, vars
  <2>10. ASSUME NEW c \in Client, Hangup(c) \/ \E a \in Addr : Connect(c, a) PROVE DescriptorsInv'
    BY <2>10, IdleKeeps DEF Hangup, Connect
  <2>11. ASSUME NEW n \in Iface, Take(n) \/ LetGo(n) \/ Abandon(n) PROVE DescriptorsInv'
    BY <2>11, IdleKeeps DEF Take, LetGo, Abandon
  <2>12. ASSUME NEW fd \in Fd, AnswerLost(fd) PROVE DescriptorsInv'
    BY <2>12, AnswerLostKeeps
  <2> QED
    BY <2>1, <2>2, <2>3, <2>4, <2>5, <2>6, <2>7, <2>8, <2>9, <2>10, <2>11, <2>12
    DEF Next, Starting, Serve, IfaceAdding, Ending
<1> QED
  BY <1>1, <1>2, UsersAlways, PTL DEF Spec

(* NoStaleDescriptor: what epoll_track and iface_JS hold is open on what it
   was opened for, however often numbers are used again. *)
THEOREM DescriptorsCurrent == Spec => []NoStaleDescriptor
<1>1. DescriptorsInv => NoStaleDescriptor
  BY DEF DescriptorsInv, Sound, NoStaleDescriptor
<1> QED
  BY <1>1, DescriptorsSafe, PTL

(* NoLostDescriptor: whatever fails in a callback, main()'s loop has no
   descriptor open that nobody would close. *)
THEOREM DescriptorsKept == Spec => []NoLostDescriptor
<1>1. DescriptorsInv => NoLostDescriptor
  <2> SUFFICES ASSUME DescriptorsInv, pc = "loop", NEW d \in DOMAIN table
               PROVE  \/ table[d] \in {Std, Epoll}
                      \/ \E p \in DOMAIN polled : d \in polled[p].fds
                      \/ d \in Range(iface)
    BY DEF NoLostDescriptor
  <2>1. Kept(table, polled, iface, d)
    BY DEF DescriptorsInv, Ownership, Running
  <2> QED
    BY <2>1 DEF Kept, Range
<1> QED
  BY <1>1, DescriptorsSafe, PTL

(* AllClosed: what eptk_free() and the destructor iface_free_all() leave open
   is exactly the sockets of the interfaces with an abandoned reference. *)
THEOREM DescriptorsClosed == Spec => []AllClosed
<1>1. DescriptorsInv /\ Users => AllClosed
  <2> SUFFICES ASSUME DescriptorsInv, Users, pc = "exited", err_cnt = 0
               PROVE  DOMAIN iface = abandoned /\ DOMAIN table = {0, 1, 2} \cup Range(iface)
    BY DEF AllClosed
  <2>1. \A d : d \in Range(iface) <=> \E n \in DOMAIN iface : iface[n] = d
    BY DEF Range
  <2>2. \A d \in DOMAIN table : d \in {0, 1, 2} \/ d \in Range(iface)
    BY <2>1 DEF DescriptorsInv, Ownership
  <2>3. \A d \in {0, 1, 2} : d \in DOMAIN table
    BY DEF DescriptorsInv, Sound
  <2>4. \A d \in Range(iface) : d \in DOMAIN table
    BY <2>1 DEF DescriptorsInv, Sound
  <2> QED
    BY <2>2, <2>3, <2>4 DEF Users
<1> QED
  BY <1>1, DescriptorsSafe, UsersAlways, PTL
-----------------------------------------------------------------------------
(* The connections. *)

\* The kernel knows the state of every client.
ClientsKnown == DOMAIN client = Client

\* What a step may do to a client that is connected.
StaysOn(c) ==
  client[c] = <<"on">> =>
    \/ client'[c] \in {<<"on">>, <<"off">>}
    \/ pc' = "killed" /\ \E d \in Client \ {c} : client[d] = <<"off">>

\* Every action that touches the clients keeps all of them.
LEMMA ClientsStayKnown ==
  ASSUME ClientsKnown, [Next]_vars
  PROVE  ClientsKnown'
<1>1. ASSUME NEW fd, Forget(fd) PROVE ClientsKnown'
  BY <1>1 DEF Forget, TurnedAway, ClientsKnown
<1>2. CASE Starting \/ IfaceAdding \/ Kill \/ Stopped \/ UNCHANGED vars
  BY <1>2 DEF ClientsKnown, Starting, Boot, BootFails, Usage, Loop, Netsock, NetsockFails, IfaceAdding,
     IfaceNewFails, IfaceRegistered, IfaceUnregistered, IfaceListed, Kill, Stopped, vars
<1>3. CASE \E c \in Client : Serve(c) \/ Hangup(c) \/ \E a \in Addr : Connect(c, a)
  BY <1>1, <1>3 DEF ClientsKnown, Serve, Accept, AcceptFails, Hangup, Connect
<1>4. CASE \E fd \in Fd : EndOfStream(fd) \/ AnswerLost(fd)
  BY <1>1, <1>4 DEF EndOfStream, AnswerLost, TurnedAway, ClientsKnown
<1>5. CASE \E n \in Iface :
             IfaceNew(n) \/ Take(n) \/ LetGo(n) \/ Abandon(n) \/ IfaceDel(n) \/ RecvError(n)
  BY <1>1, <1>5 DEF ClientsKnown, IfaceNew, Take, LetGo, Abandon, IfaceDel, RecvError
<1>6. CASE Ending
  BY <1>6 DEF ClientsKnown, Ending, FreeAll, EptkFree, IfaceFreeAll, TurnedAway
<1> QED
  BY <1>2, <1>3, <1>4, <1>5, <1>6 DEF Next

\* What epoll_track closes with a registration is what the registration is of,
\* or stdin's other end.
LEMMA ForgetCloses ==
  ASSUME DescriptorsInv, NEW fd \in DOMAIN polled
  PROVE  Opened(polled[fd].fds) \subseteq {polled[fd].of, Stdout}
BY DEF DescriptorsInv, Sound, Opened

\* So a connection goes only with the registration of its own client.
LEMMA ForgetSpares ==
  ASSUME DescriptorsInv, NEW fd \in DOMAIN polled, Forget(fd), NEW c \in Client,
         polled[fd].of # Conn(c)
  PROVE  StaysOn(c)
<1>1. Conn(c) \notin Opened(polled[fd].fds)
  BY ForgetCloses, FilesDiffer
<1>2. PICK files : files = Opened(polled[fd].fds)
  OBVIOUS
<1>3. client' = [d \in Client |->
        IF Conn(d) \in files \/ \E a \in Addr : client[d] = <<"waits", a>> /\ Listen(a) \in files
        THEN <<"away">> ELSE client[d]]
  BY <1>2 DEF Forget, TurnedAway
<1>4. client[c] = <<"on">> => \A a : client[c] # <<"waits", a>>
  OBVIOUS
<1> QED
  BY <1>1, <1>2, <1>3, <1>4 DEF StaysOn

\* Different clients have different connections.
LEMMA ConnectionsDiffer ==
  /\ \A c, d : Conn(c) = Conn(d) => c = d
  /\ \A c, a : Conn(c) # Listen(a)
BY DEF Conn, Listen

\* Before eptk_free() no step turns a connected client away, but for a signal
\* that another has caused.
LEMMA StepSpares ==
  ASSUME DescriptorsInv, ClientsKnown, [Next]_vars, pc # "eptk_free", NEW c \in Client
  PROVE  StaysOn(c)
<1>1. CASE client' = client
  BY <1>1 DEF StaysOn
<1>2. CASE Starting \/ IfaceAdding \/ Kill \/ Stopped \/ UNCHANGED vars
  <2>1. client' = client
    BY <1>2 DEF Starting, Boot, BootFails, Usage, Loop, Netsock, NetsockFails, IfaceAdding,
       IfaceNewFails, IfaceRegistered, IfaceUnregistered, IfaceListed, Kill, Stopped, vars
  <2> QED
    BY <1>1, <2>1
<1>3. ASSUME NEW d \in Client, NEW fd \in Fd, Accept(fd, d) PROVE StaysOn(c)
  BY <1>3 DEF Accept, ClientsKnown, StaysOn
<1>4. ASSUME NEW d \in Client, NEW fd \in Fd, AcceptFails(fd, d) PROVE StaysOn(c)
  <2>1. fd \in DOMAIN polled /\ Forget(fd) /\ \E a \in Addr : polled[fd].of = Listen(a)
    BY <1>4 DEF AcceptFails
  <2> QED
    BY <2>1, ForgetSpares, ConnectionsDiffer
<1>5. ASSUME NEW d \in Client, Hangup(d) \/ \E a \in Addr : Connect(d, a) PROVE StaysOn(c)
  <2>1. CASE Hangup(d)
    BY <2>1 DEF Hangup, ClientsKnown, StaysOn
  <2>2. ASSUME NEW a \in Addr, Connect(d, a) PROVE StaysOn(c)
    <3>1. client[d] # <<"on">> /\ client' = [client EXCEPT ![d] = <<"waits", a>>]
      BY <2>2 DEF Connect
    <3> QED
      BY <3>1 DEF ClientsKnown, StaysOn
  <2> QED
    BY <1>5, <2>1, <2>2
<1>6. ASSUME NEW fd \in Fd, EndOfStream(fd) PROVE StaysOn(c)
  <2>1. fd \in DOMAIN polled /\ Forget(fd)
    BY <1>6 DEF EndOfStream
  <2>2. CASE polled[fd].of = Conn(c)
    <3>1. client[c] = <<"off">>
      BY <1>6, <2>2, ConnectionsDiffer, FilesDiffer DEF EndOfStream
    <3> QED
      BY <3>1 DEF StaysOn
  <2>3. CASE polled[fd].of # Conn(c)
    BY <2>1, <2>3, ForgetSpares
  <2> QED
    BY <2>2, <2>3
<1>7. ASSUME NEW n \in Iface, IfaceDel(n) \/ RecvError(n) PROVE StaysOn(c)
  <2>1. CASE client' = client
    BY <1>1, <2>1
  <2>2. CASE client' # client
    <3>1. n \in DOMAIN iface /\ iface[n] \in DOMAIN polled /\ Forget(iface[n])
      BY <1>7, <2>2 DEF IfaceDel, RecvError
    <3>2. polled[iface[n]].of = Raw(n)
      BY <3>1 DEF DescriptorsInv, Sound
    <3> QED
      BY <3>1, <3>2, ForgetSpares, FilesDiffer
  <2> QED
    BY <2>1, <2>2
<1>8. ASSUME NEW n \in Iface, IfaceNew(n) \/ Take(n) \/ LetGo(n) \/ Abandon(n) PROVE StaysOn(c)
  BY <1>1, <1>8 DEF IfaceNew, Take, LetGo, Abandon
<1>9. CASE Ending
  BY <1>1, <1>9 DEF Ending, FreeAll, EptkFree, IfaceFreeAll
<1>10. ASSUME NEW fd \in Fd, AnswerLost(fd) PROVE StaysOn(c)
  <2>1. pc' = "killed" /\ \E d \in Client : client[d] = <<"off">>
    BY <1>10 DEF AnswerLost
  <2> QED
    BY <2>1 DEF StaysOn
<1> QED
  BY <1>2, <1>3, <1>4, <1>5, <1>6, <1>7, <1>8, <1>9, <1>10 DEF Next, Serve

(* ConnectionKept: no callback of another descriptor, whether it fails to
   accept, ends or removes an interface, closes the connection of a client
   that has not hung up; only eptk_free() does, and the signal of an answer
   to another client that has hung up. *)
THEOREM ConnectionsKept == Spec => ConnectionKept
<1>1. Init => ClientsKnown
  BY DEF Init, ClientsKnown
<1>2. DescriptorsInv /\ ClientsKnown /\ [Next]_vars =>
        [\A c \in Client :
           client[c] = <<"on">> /\ pc # "eptk_free" =>
             \/ client'[c] \in {<<"on">>, <<"off">>}
             \/ pc' = "killed" /\ \E d \in Client \ {c} : client[d] = <<"off">>]_vars
  BY StepSpares DEF StaysOn
<1>3. ClientsKnown /\ [Next]_vars => ClientsKnown'
  BY ClientsStayKnown
<1> QED
  BY <1>1, <1>2, <1>3, DescriptorsSafe, PTL DEF Spec, ConnectionKept
=============================================================================
