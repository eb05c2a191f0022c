------------------------------ MODULE Replies ------------------------------
(***************************************************************************)
(* From captured frames to observations (scanner.rs: receive and its       *)
(* handlers, observe_response; packet.rs).  SYNs carry a keyed cookie as   *)
(* sequence number; replies come back late, repeatedly, in any order, to   *)
(* SYNs of this process or of an earlier one, between frames that answer   *)
(* no SYN of ours.  Every restart has a new nonce and a new clock.         *)
(*                                                                         *)
(* A remote is a pair of address and port.  The keyed hashes are constants *)
(* (functions), their results small numbers with the wrap-around of u32.   *)
(***************************************************************************)
EXTENDS Integers, FiniteSets

CONSTANTS
    Targets,        \* remotes of the job (targets.bin, ports.bin)
    Strangers,      \* other remotes that send frames
    LocalPort,      \* ports of the scanning host
    source_port,    \* cfg.scan.source_port, 0 for one per target and run
    port_hash,      \* packet::ephemeral_source_port of a nonce and a remote
    cookie_hash,    \* packet::syn_cookie of a remote and a local port
    U32,            \* 2^32
    Micros,         \* microseconds in a millisecond
    Link,           \* framing of the capture: raw, ethernet or cooked
    FirstNibble,    \* high half of the first byte of a link header
    Attempts,       \* cfg.scan.syn_attempts
    MaxRuns,        \* bound: processes
    MaxTime,        \* bound: milliseconds
    MaxReplies,     \* bound: frames that answer a SYN
    StrayNumber     \* bound: numbers that strays carry

Remote == Targets \cup Strangers
Run == 1 .. MaxRuns
TargetState == {"no_response", "unreachable", "closed", "open"}

rank(s) == CASE s = "no_response" -> 0
             [] s = "unreachable" -> 1
             [] s = "closed"      -> 2
             [] s = "open"        -> 3

ASSUME RepliesAssumption ==
    /\ Targets \cap Strangers = {}
    /\ 0 \notin LocalPort
    /\ source_port \in LocalPort \cup {0}
    /\ U32 \in Nat \ {0, 1} /\ Micros \in Nat \ {0}
    /\ port_hash \in [Run \X Remote -> LocalPort]
    /\ cookie_hash \in [Remote \X LocalPort -> 0 .. U32 - 1]
    /\ Link \in {"raw", "ethernet", "cooked"}
    /\ FirstNibble \in 0 .. 15
    /\ Attempts \in Nat \ {0} /\ MaxRuns \in Nat \ {0}
    /\ MaxTime \in Nat /\ MaxReplies \in Nat
    /\ StrayNumber \subseteq 0 .. U32 - 1

VARIABLES
    \* files
    state, rtt, conflicts, sent_at,
    \* the process: phase, run (its nonce), start, attempt; now_ms of a receive
    pc, run, start, attempt, now,
    \* the world: time, SYNs sent, answers delivered
    wall, wire, replies,
    \* history: kinds of answers heard per target
    heard

fileVars == <<state, rtt, conflicts, sent_at>>
procVars == <<pc, run, start, attempt, now>>
worldVars == <<wall, wire, replies>>
vars == <<fileVars, procVars, worldVars, heard>>

Silent == [state |-> "no_response", attempts |-> 0]

Init ==
    /\ state = [t \in Targets |-> Silent]
    /\ rtt = [t \in Targets |-> 0]
    /\ conflicts = [t \in Targets |-> 0]
    /\ sent_at = [t \in Targets |-> 0]
    /\ pc = "send" /\ run = 1 /\ start = 0 /\ attempt = 1 /\ now = 0
    /\ wall = 0 /\ wire = {} /\ replies = 0
    /\ heard = {}

least(a, b) == IF a <= b THEN a ELSE b

elapsed_ms == least(wall - start, U32 - 1)

local_source_port(r) ==
    IF source_port = 0 THEN port_hash[run, r] ELSE source_port

syn_cookie(r) == cookie_hash[r, local_source_port(r)]

-----------------------------------------------------------------------------
(* Sending: the part of prepare_syn_batch that writes sent_at and builds   *)
(* the packet of one target.                                               *)

(* mutant: the time of a target's first SYN is kept *)
SendSynKeepTime(t) ==
    /\ pc = "send" /\ state[t].state = "no_response"
    /\ sent_at' = [sent_at EXCEPT ![t] = IF @ = 0 THEN elapsed_ms ELSE @]
    /\ wire' = wire \cup {[to |-> t, from |-> local_source_port(t),
                           seq |-> syn_cookie(t), at |-> wall]}
    /\ UNCHANGED <<state, rtt, conflicts, procVars, wall, replies, heard>>

SendSyn(t) ==
    /\ pc = "send" /\ state[t].state = "no_response"
    /\ sent_at' = [sent_at EXCEPT ![t] = elapsed_ms]
    /\ wire' = wire \cup {[to |-> t, from |-> local_source_port(t),
                           seq |-> syn_cookie(t), at |-> wall]}
    /\ UNCHANGED <<state, rtt, conflicts, procVars, wall, replies, heard>>

(* receive_replies takes the time once for all frames it drains *)
BeginReceive ==
    /\ pc = "send"
    /\ pc' = "receive" /\ now' = elapsed_ms
    /\ UNCHANGED <<fileVars, run, start, attempt, worldVars, heard>>

EndReceive ==
    /\ pc = "receive"
    /\ pc' = "send"
    /\ UNCHANGED <<fileVars, run, start, attempt, now, worldVars, heard>>

NextRound ==
    /\ pc = "send" /\ attempt < Attempts
    /\ attempt' = attempt + 1
    /\ UNCHANGED <<fileVars, pc, run, start, now, worldVars, heard>>

(* The process ends and is resumed: a new nonce, a new clock, and a round  *)
(* no later than the one it was in.                                        *)
Restart ==
    /\ run < MaxRuns
    /\ run' = run + 1 /\ start' = wall
    /\ attempt' \in 1 .. attempt
    /\ pc' = "send" /\ now' = 0
    /\ UNCHANGED <<fileVars, worldVars, heard>>

Tick ==
    /\ wall < MaxTime
    /\ wall' = wall + 1
    /\ UNCHANGED <<fileVars, procVars, wire, replies, heard>>

-----------------------------------------------------------------------------
(* Frames.  `what` is what the TCP flags or the ICMP type say, `number`    *)
(* the acknowledgement of a TCP reply or the sequence number of the SYN an *)
(* ICMP message quotes, `ours` whether the quoted source is our address,   *)
(* `whole` whether the headers are complete.                               *)

TcpKind == {"synack", "rst", "ack"}
IcmpKind == {"unreachable", "echo"}

Frame == {f \in [remote : Remote, local : LocalPort, number : StrayNumber,
                 what : TcpKind \cup IcmpKind, ours : BOOLEAN,
                 whole : BOOLEAN] : f.what \in TcpKind => f.ours}

successor(n) == (n + 1) % U32

(* what the host or a router on the way sends back to a SYN *)
Answer(syn, what) ==
    [remote |-> syn.to, local |-> syn.from,
     number |-> IF what \in TcpKind THEN successor(syn.seq) ELSE syn.seq,
     what |-> what, ours |-> TRUE, whole |-> TRUE]

Meaning(what) == CASE what = "synack"      -> "open"
                   [] what = "rst"         -> "closed"
                   [] what = "unreachable" -> "unreachable"

(* An IPv4 header at offset 0 is recognised by the first half byte alone,  *)
(* before the Ethernet and the cooked type field are looked at; what is    *)
(* read at the wrong offset passes no check that follows.                  *)
HeaderFound == Link # "raw" => FirstNibble # 4

ipv4_header(f) == f.whole /\ HeaderFound

(* mutant: the sum does not wrap *)
valid_ack_checked(cookie, ack) == ack = cookie + 1

valid_ack(cookie, ack) == ack = successor(cookie)

(* handle_tcp_reply up to its flags *)
valid_tcp(f) ==
    /\ f.remote \in Targets
    /\ f.local = local_source_port(f.remote)
    /\ valid_ack(syn_cookie(f.remote), f.number)

(* handle_icmp_reply: inner_tcp_reply, valid_inner_reply, find_index *)
valid_icmp(f) ==
    /\ f.ours
    /\ f.local = local_source_port(f.remote)
    /\ f.number = syn_cookie(f.remote)
    /\ f.remote \in Targets

Observed(f) ==
    /\ ipv4_header(f)
    /\ \/ f.what \in {"synack", "rst"} /\ valid_tcp(f)
       \/ f.what = "unreachable" /\ valid_icmp(f)

-----------------------------------------------------------------------------
(* observe_response *)

saturating(n) == least(n, U32 - 1)

wrapping_sub(a, b) == (a - b) % U32

response_rtt_us(t) == saturating(wrapping_sub(now, sent_at[t]) * Micros)

(* mutant: any answer after the first is a conflict *)
conflicting_any(current, s) == current # "no_response"

conflicting(current, s) == current # "no_response" /\ current # s

upgrades(current, s) == rank(s) > rank(current)

observe_response(t, s) ==
    /\ conflicts' = [conflicts EXCEPT ![t] =
                       IF conflicting(state[t].state, s)
                       THEN saturating(@ + 1) ELSE @]
    /\ state' = [state EXCEPT ![t] =
                   IF upgrades(@.state, s)
                   THEN [state |-> s, attempts |-> attempt] ELSE @]
    /\ rtt' = [rtt EXCEPT ![t] =
                 IF @ = 0 /\ sent_at[t] # 0
                 THEN saturating(response_rtt_us(t) + 1) ELSE @]
    /\ UNCHANGED sent_at

(* one frame of receive's loop *)
Handle(f) ==
    IF Observed(f)
    THEN observe_response(f.remote, Meaning(f.what))
    ELSE UNCHANGED fileVars

(* SYNs a reply to which this process can tell: those with its own port *)
Recognisable(syn) == syn.from = local_source_port(syn.to)

(* An answer to a SYN, delivered whole; `wire` is never emptied, so it may *)
(* be late or repeated.                                                    *)
ReceiveAnswer(syn, what) ==
    /\ pc = "receive" /\ replies < MaxReplies
    /\ replies' = replies + 1
    /\ Handle(Answer(syn, what))
    /\ heard' = IF Recognisable(syn) /\ what \notin {"ack", "echo"}
                THEN heard \cup {<<syn.to, Meaning(what)>>} ELSE heard
    /\ UNCHANGED <<procVars, wall, wire>>

(* the number only the key or an answer to a SYN can give *)
KeyedNumber(f) ==
    IF f.what \in TcpKind
    THEN successor(cookie_hash[f.remote, f.local])
    ELSE cookie_hash[f.remote, f.local]

(* A frame that answers no SYN: incomplete, with another number, or an     *)
(* ICMP message that quotes a packet of another host.                      *)
Stray(f) ==
    \/ ~f.whole
    \/ f.what \in IcmpKind /\ ~f.ours
    \/ f.number # KeyedNumber(f)

ReceiveStray(f) ==
    /\ pc = "receive"
    /\ Stray(f)
    /\ Handle(f)
    /\ UNCHANGED <<procVars, worldVars, heard>>

Next ==
    \/ \E t \in Targets : SendSyn(t)
    \/ BeginReceive \/ EndReceive \/ NextRound \/ Restart \/ Tick
    \/ \E syn \in wire, what \in TcpKind \cup IcmpKind :
          ReceiveAnswer(syn, what)
    \/ \E f \in Frame : ReceiveStray(f)

Spec == Init /\ [][Next]_vars

-----------------------------------------------------------------------------
(* Properties *)

(* Every variable has its type. *)
TypeOK ==
    /\ state \in [Targets -> [state : TargetState, attempts : 0 .. Attempts]]
    /\ rtt \in [Targets -> 0 .. U32 - 1]
    /\ conflicts \in [Targets -> 0 .. U32 - 1]
    /\ sent_at \in [Targets -> 0 .. U32 - 1]
    /\ pc \in {"send", "receive"}
    /\ run \in Run /\ start \in 0 .. wall /\ attempt \in 1 .. Attempts
    /\ now \in 0 .. U32 - 1
    /\ wall \in 0 .. MaxTime
    /\ replies \in 0 .. MaxReplies
    /\ wire \subseteq [to : Targets, from : LocalPort, seq : 0 .. U32 - 1,
                       at : 0 .. wall]
    /\ heard \subseteq Targets \X (TargetState \ {"no_response"})

(* "Cookie-validated SYN-ACK, RST, and ICMP responses persist" (README):   *)
(* a target's state is the best answer it has given to a SYN this process  *)
(* can recognise, and no_response exactly if it gave none, whatever was    *)
(* repeated, late, reordered or unrelated, and whatever restarts happened, *)
(* on every interface whose link header is not taken for an IPv4 header.   *)
BestAnswerKept ==
    HeaderFound => \A t \in Targets :
        /\ state[t].state # "no_response" => <<t, state[t].state>> \in heard
        /\ \A s \in TargetState :
              <<t, s>> \in heard => rank(s) <= rank(state[t].state)

(* A target has conflicting observations exactly if it gave answers of     *)
(* different kinds, whichever came first; duplicates are no conflict.      *)
ConflictsMeanDisagreement ==
    HeaderFound => \A t \in Targets :
        conflicts[t] > 0 <=> Cardinality({s \in TargetState :
                                            <<t, s>> \in heard}) > 1

(* every process draws another port for a target *)
OwnPorts ==
    \A i, j \in Run, r \in Remote : i # j => port_hash[i, r] # port_hash[j, r]

(* With a source port of its own for every process, sent_at belongs to     *)
(* this process whenever a reply is recognised: an RTT is never longer     *)
(* than the time since the target's last SYN.  (A configured source_port,  *)
(* and a port that two processes happen to draw, let replies to an earlier *)
(* process through, whose clock has gone.)                                 *)
RttNotOver ==
    [][source_port = 0 /\ OwnPorts => \A t \in Targets : rtt'[t] # rtt[t] =>
          \A syn \in wire :
             syn.to = t /\ (\A other \in wire :
                               other.to = t => other.at <= syn.at)
             => rtt'[t] - 1 <= Micros * (wall - syn.at)]_vars

=============================================================================
