---------------------------- MODULE RepliesProofs ----------------------------
(***************************************************************************)
(* Proofs about Replies, for any targets, ports, cookies and numbers of    *)
(* processes, rounds and replies.  That a frame is believed exactly if it  *)
(* answers a SYN this process can recognise rests on the sequence numbers  *)
(* on the wire being cookies of their remote and port.                     *)
(***************************************************************************)
EXTENDS Replies, TLAPS, FiniteSetTheorems

Word == 0 .. U32 - 1

(* The sequence number of a SYN is the cookie of where it goes and comes from. *)
Cookie(r, port) == cookie_hash[r, port]

WireOK == \A syn \in wire : syn.seq = Cookie(syn.to, syn.from)

(* The kinds of answers a target has given to recognisable SYNs. *)
Kinds(t) == {s \in TargetState : <<t, s>> \in heard}

(* Conflicts are counted once two kinds were heard. *)
Disagree(t) == \E a, b \in Kinds(t) : a # b

ConflictsOK ==
    HeaderFound => \A t \in Targets : conflicts[t] > 0 <=> Disagree(t)

-----------------------------------------------------------------------------
(* Numbers *)

LEMMA Saturated ==
    ASSUME NEW n \in Nat
    PROVE  /\ saturating(n) \in Word
           /\ n > 0 => saturating(n) > 0
  BY RepliesAssumption DEF saturating, least, Word

LEMMA Wrapped ==
    ASSUME NEW a \in Word, NEW b \in Word
    PROVE  wrapping_sub(a, b) \in Word
  BY RepliesAssumption DEF wrapping_sub, Word

LEMMA Times ==
    ASSUME NEW a \in Nat, NEW b \in Nat
    PROVE  a * b \in Nat
OBVIOUS

LEMMA RttIsWord ==
    ASSUME TypeOK, NEW t \in Targets
    PROVE  saturating(response_rtt_us(t) + 1) \in Word
<1>1. wrapping_sub(now, sent_at[t]) \in Word
  BY Wrapped DEF TypeOK, Word
<1>2. wrapping_sub(now, sent_at[t]) \in Nat /\ Micros \in Nat
  BY <1>1, RepliesAssumption DEF Word
<1>3. wrapping_sub(now, sent_at[t]) * Micros \in Nat
  BY <1>2, Times
<1>4. response_rtt_us(t) \in Word
  BY <1>3, Saturated DEF response_rtt_us
<1>5. response_rtt_us(t) + 1 \in Nat
  BY <1>4, RepliesAssumption DEF Word
<1> QED BY <1>5, Saturated

LEMMA ElapsedIsWord ==
    ASSUME TypeOK
    PROVE  elapsed_ms \in Word
  BY RepliesAssumption DEF TypeOK, elapsed_ms, least, Word

LEMMA PortIsLocal ==
    ASSUME TypeOK, NEW r \in Remote
    PROVE  local_source_port(r) \in LocalPort
<1>1. <<run, r>> \in Run \X Remote
  BY DEF TypeOK
<1>2. port_hash[<<run, r>>] \in LocalPort
  BY <1>1, RepliesAssumption
<1> QED BY <1>2, RepliesAssumption DEF local_source_port

LEMMA CookieIsWord ==
    ASSUME TypeOK, NEW r \in Remote
    PROVE  syn_cookie(r) \in Word
<1>1. <<r, local_source_port(r)>> \in Remote \X LocalPort
  BY PortIsLocal
<1> QED BY <1>1, RepliesAssumption DEF syn_cookie, Word

-----------------------------------------------------------------------------
(* One observation *)

LEMMA ObserveTypes ==
    ASSUME TypeOK, NEW t \in Targets, NEW s \in TargetState,
           observe_response(t, s)
    PROVE  /\ state' \in [Targets -> [state : TargetState, attempts : 0 .. Attempts]]
           /\ rtt' \in [Targets -> Word]
           /\ conflicts' \in [Targets -> Word]
           /\ sent_at' \in [Targets -> Word]
<1>1. [state |-> s, attempts |-> attempt]
        \in [state : TargetState, attempts : 0 .. Attempts]
  BY RepliesAssumption DEF TypeOK
<1>2. state' \in [Targets -> [state : TargetState, attempts : 0 .. Attempts]]
  BY <1>1 DEF TypeOK, observe_response
<1>3. rtt' \in [Targets -> Word]
  BY RttIsWord DEF TypeOK, observe_response, Word
<1>4. conflicts[t] + 1 \in Nat
  BY RepliesAssumption DEF TypeOK
<1>5. saturating(conflicts[t] + 1) \in Word
  BY <1>4, Saturated
<1>6. conflicts' \in [Targets -> Word]
  BY <1>5 DEF TypeOK, observe_response, Word
<1> QED BY <1>2, <1>3, <1>6 DEF TypeOK, observe_response, Word

LEMMA ObservedMeans ==
    ASSUME NEW f, Observed(f)
    PROVE  /\ HeaderFound
           /\ f.remote \in Targets
           /\ Meaning(f.what) \in TargetState \ {"no_response"}
  BY DEF Observed, ipv4_header, valid_tcp, valid_icmp, Meaning, TargetState

LEMMA HandleTypes ==
    ASSUME TypeOK, NEW f, Handle(f)
    PROVE  /\ state' \in [Targets -> [state : TargetState, attempts : 0 .. Attempts]]
           /\ rtt' \in [Targets -> Word]
           /\ conflicts' \in [Targets -> Word]
           /\ sent_at' \in [Targets -> Word]
<1>1. CASE Observed(f)
  BY <1>1, ObservedMeans, ObserveTypes DEF Handle
<1>2. CASE ~Observed(f)
  BY <1>2 DEF Handle, fileVars, TypeOK, Word
<1> QED BY <1>1, <1>2

LEMMA InitTypes == Init => TypeOK
  BY RepliesAssumption
     DEF Init, TypeOK, Silent, TargetState, Run

LEMMA StepTypes == TypeOK /\ [Next]_vars => TypeOK'
<1> SUFFICES ASSUME TypeOK, [Next]_vars PROVE TypeOK'
  OBVIOUS
<1>1. ASSUME NEW t \in Targets, SendSyn(t) PROVE TypeOK'
  <2>1. t \in Remote
    BY DEF Remote
  <2>2. /\ elapsed_ms \in Word
        /\ local_source_port(t) \in LocalPort
        /\ syn_cookie(t) \in Word
    BY <2>1, ElapsedIsWord, PortIsLocal, CookieIsWord
  <2>3. sent_at' \in [Targets -> 0 .. U32 - 1]
    BY <1>1, <2>2 DEF SendSyn, TypeOK, Word
  <2>4. [to |-> t, from |-> local_source_port(t), seq |-> syn_cookie(t),
         at |-> wall] \in [to : Targets, from : LocalPort,
                           seq : 0 .. U32 - 1, at : 0 .. wall]
    BY <2>2, RepliesAssumption DEF TypeOK, Word
  <2>5. wire' \subseteq [to : Targets, from : LocalPort,
                         seq : 0 .. U32 - 1, at : 0 .. wall]
    BY <1>1, <2>4 DEF SendSyn, TypeOK
  <2> QED BY <1>1, <2>3, <2>5 DEF SendSyn, TypeOK, procVars
<1>2. CASE BeginReceive
  BY <1>2, ElapsedIsWord DEF BeginReceive, TypeOK, Word, fileVars, worldVars
<1>3. CASE EndReceive
  BY <1>3 DEF EndReceive, TypeOK, fileVars, worldVars
<1>4. CASE NextRound
  BY <1>4, RepliesAssumption DEF NextRound, TypeOK, fileVars, worldVars
<1>5. CASE Restart
  <2>1. run' \in Run
    BY <1>5, RepliesAssumption DEF Restart, TypeOK, Run
  <2>2. start' \in 0 .. wall' /\ attempt' \in 1 .. Attempts
    BY <1>5, RepliesAssumption DEF Restart, TypeOK, worldVars
  <2>3. now' \in 0 .. U32 - 1
    BY <1>5, RepliesAssumption DEF Restart
  <2> QED BY <1>5, <2>1, <2>2, <2>3 DEF Restart, TypeOK, fileVars, worldVars
<1>6. CASE Tick
  <2>1. wall' \in 0 .. MaxTime /\ start' \in 0 .. wall'
    BY <1>6, RepliesAssumption DEF Tick, TypeOK, procVars
  <2>2. 0 .. wall \subseteq 0 .. wall'
    BY <1>6, RepliesAssumption DEF Tick, TypeOK
  <2>3. wire' \subseteq [to : Targets, from : LocalPort,
                         seq : 0 .. U32 - 1, at : 0 .. wall']
    BY <1>6, <2>2 DEF Tick, TypeOK
  <2> QED BY <1>6, <2>1, <2>3 DEF Tick, TypeOK, fileVars, procVars
<1>7. ASSUME NEW syn \in wire, NEW what \in TcpKind \cup IcmpKind,
             ReceiveAnswer(syn, what)
      PROVE  TypeOK'
  <2>1. replies' \in 0 .. MaxReplies
    BY <1>7, RepliesAssumption DEF ReceiveAnswer, TypeOK
  <2>2. syn.to \in Targets
    BY DEF TypeOK
  <2>3. what \notin {"ack", "echo"}
          => Meaning(what) \in TargetState \ {"no_response"}
    BY DEF TcpKind, IcmpKind, Meaning, TargetState
  <2>4. heard' \subseteq Targets \X (TargetState \ {"no_response"})
    BY <1>7, <2>2, <2>3 DEF ReceiveAnswer, TypeOK
  <2>5. Handle(Answer(syn, what))
    BY <1>7 DEF ReceiveAnswer
  <2> QED
    BY <1>7, <2>1, <2>4, <2>5, HandleTypes DEF ReceiveAnswer, TypeOK, Word,
       procVars
<1>8. ASSUME NEW f \in Frame, ReceiveStray(f) PROVE TypeOK'
  <2>1. Handle(f)
    BY <1>8 DEF ReceiveStray
  <2> QED
    BY <1>8, <2>1, HandleTypes DEF ReceiveStray, TypeOK, Word, procVars,
       worldVars
<1>9. CASE UNCHANGED vars
  BY <1>9 DEF vars, fileVars, procVars, worldVars, TypeOK
<1> QED
  BY <1>1, <1>2, <1>3, <1>4, <1>5, <1>6, <1>7, <1>8, <1>9 DEF Next

-----------------------------------------------------------------------------
(* Which frames are believed *)

LEMMA CookieOf ==
    ASSUME NEW r, NEW port, port = local_source_port(r)
    PROVE  syn_cookie(r) = Cookie(r, port)
  BY Zenon DEF syn_cookie, Cookie

LEMMA KeyedNumberOf ==
    ASSUME NEW f
    PROVE  KeyedNumber(f) = IF f.what \in TcpKind
                            THEN successor(Cookie(f.remote, f.local))
                            ELSE Cookie(f.remote, f.local)
  BY Zenon DEF KeyedNumber, Cookie

LEMMA StrayIgnored ==
    ASSUME NEW f \in Frame, Stray(f)
    PROVE  ~Observed(f)
<1> SUFFICES ASSUME Observed(f) PROVE FALSE
  OBVIOUS
<1>1. f.whole /\ f.local = local_source_port(f.remote)
  BY DEF Observed, ipv4_header, valid_tcp, valid_icmp
<1>2. syn_cookie(f.remote) = Cookie(f.remote, f.local)
  BY <1>1, CookieOf
<1>3. CASE f.what \in {"synack", "rst"}
  <2>1. f.number = successor(Cookie(f.remote, f.local))
    BY <1>2, <1>3 DEF Observed, valid_tcp, valid_ack
  <2>2. f.what \in TcpKind /\ f.what \notin IcmpKind
    BY <1>3 DEF TcpKind, IcmpKind
  <2>3. f.number = KeyedNumber(f)
    BY <2>1, <2>2, KeyedNumberOf
  <2> QED BY <1>1, <2>2, <2>3 DEF Stray
<1>4. CASE f.what = "unreachable"
  <2>1. f.number = Cookie(f.remote, f.local) /\ f.ours
    BY <1>2, <1>4 DEF Observed, valid_icmp
  <2>2. f.what \notin TcpKind
    BY <1>4 DEF TcpKind
  <2>3. f.number = KeyedNumber(f)
    BY <2>1, <2>2, KeyedNumberOf
  <2> QED BY <1>1, <2>1, <2>3 DEF Stray
<1> QED BY <1>3, <1>4 DEF Observed

LEMMA AnswerBelieved ==
    ASSUME TypeOK, WireOK, HeaderFound,
           NEW syn \in wire, NEW what \in TcpKind \cup IcmpKind
    PROVE  Observed(Answer(syn, what))
             <=> Recognisable(syn) /\ what \notin {"ack", "echo"}
<1> DEFINE f == Answer(syn, what)
<1>1. /\ f.remote = syn.to /\ f.local = syn.from /\ f.what = what
      /\ f.ours /\ f.whole
      /\ what \in TcpKind => f.number = successor(syn.seq)
      /\ what \notin TcpKind => f.number = syn.seq
  BY DEF Answer
<1>2. syn.to \in Targets /\ syn.seq = Cookie(syn.to, syn.from)
  BY DEF TypeOK, WireOK
<1> HIDE DEF f
<1>3. Observed(f) => Recognisable(syn) /\ what \notin {"ack", "echo"}
  BY <1>1 DEF Observed, valid_tcp, valid_icmp, Recognisable
<1>4. ASSUME Recognisable(syn), what \notin {"ack", "echo"}
      PROVE  Observed(f)
  <2>1. syn_cookie(syn.to) = syn.seq
    BY <1>2, <1>4, CookieOf DEF Recognisable
  <2>2. CASE what = "unreachable"
    BY <1>1, <1>2, <1>4, <2>1, <2>2
       DEF Observed, ipv4_header, valid_icmp, Recognisable, TcpKind
  <2>3. CASE what \in {"synack", "rst"}
    BY <1>1, <1>2, <1>4, <2>1, <2>3
       DEF Observed, ipv4_header, valid_tcp, valid_ack, Recognisable, TcpKind
  <2> QED BY <1>4, <2>2, <2>3 DEF TcpKind, IcmpKind
<1> QED BY <1>3, <1>4 DEF f

LEMMA StepWire == TypeOK /\ WireOK /\ [Next]_vars => WireOK'
<1> SUFFICES ASSUME TypeOK, WireOK, [Next]_vars PROVE WireOK'
  OBVIOUS
<1>1. ASSUME NEW t \in Targets, SendSyn(t) PROVE WireOK'
  <2>1. syn_cookie(t) = Cookie(t, local_source_port(t))
    BY CookieOf
  <2>2. ASSUME NEW syn \in wire' PROVE syn.seq = Cookie(syn.to, syn.from)
    <3>1. CASE syn \in wire
      BY <3>1 DEF WireOK
    <3>2. CASE syn = [to |-> t, from |-> local_source_port(t),
                      seq |-> syn_cookie(t), at |-> wall]
      BY <3>2, <2>1
    <3> QED BY <1>1, <2>2, <3>1, <3>2 DEF SendSyn
  <2> QED BY <2>2, Zenon DEF WireOK
<1>2. CASE UNCHANGED wire
  BY <1>2, Zenon DEF WireOK
<1>3. \/ \E t \in Targets : SendSyn(t)
      \/ UNCHANGED wire
  BY DEF Next, vars, worldVars, BeginReceive, EndReceive, NextRound, Restart,
     Tick, ReceiveAnswer, ReceiveStray
<1> QED BY <1>1, <1>2, <1>3

-----------------------------------------------------------------------------
(* What an observation does to the state and the conflicts of its target *)

ReplyInv == TypeOK /\ WireOK /\ BestAnswerKept /\ ConflictsOK

LEMMA Ranks ==
    ASSUME NEW a \in TargetState, NEW b \in TargetState
    PROVE  /\ rank(a) \in 0 .. 3
           /\ rank(a) = 0 <=> a = "no_response"
           /\ rank(a) = rank(b) => a = b
  BY DEF TargetState, rank

LEMMA ObserveBest ==
    ASSUME ReplyInv, HeaderFound, NEW t \in Targets,
           NEW s \in TargetState \ {"no_response"},
           observe_response(t, s), heard' = heard \cup {<<t, s>>}
    PROVE  BestAnswerKept'
<1> SUFFICES ASSUME NEW u \in Targets
             PROVE  /\ state'[u].state # "no_response"
                          => <<u, state'[u].state>> \in heard'
                    /\ \A k \in TargetState :
                          <<u, k>> \in heard'
                            => rank(k) <= rank(state'[u].state)
  BY DEF BestAnswerKept
<1>1. /\ state[u].state # "no_response" => <<u, state[u].state>> \in heard
      /\ \A k \in TargetState :
            <<u, k>> \in heard => rank(k) <= rank(state[u].state)
  BY DEF ReplyInv, BestAnswerKept
<1>2. state \in [Targets -> [state : TargetState, attempts : 0 .. Attempts]]
  BY DEF ReplyInv, TypeOK
<1>3. CASE u # t
  BY <1>1, <1>2, <1>3 DEF observe_response
<1>4. CASE u = t
  <2>1. CASE rank(s) > rank(state[t].state)
    <3>1. state'[t].state = s
      BY <2>1, <1>2 DEF observe_response, upgrades
    <3>2. ASSUME NEW k \in TargetState, <<t, k>> \in heard'
          PROVE  rank(k) <= rank(s)
      BY <3>2, <1>1, <1>2, <1>4, <2>1, Ranks
    <3> QED BY <3>1, <3>2, <1>4
  <2>2. CASE ~(rank(s) > rank(state[t].state))
    <3>1. state'[t] = state[t]
      BY <2>2, <1>2 DEF observe_response, upgrades
    <3>2. state[t].state \in TargetState
      BY <1>2
    <3>3. rank(s) <= rank(state[t].state)
      BY <2>2, <3>2, Ranks
    <3> QED BY <3>1, <3>3, <1>1, <1>4
  <2> QED BY <2>1, <2>2
<1> QED BY <1>3, <1>4

LEMMA ObserveConflicts ==
    ASSUME ReplyInv, HeaderFound, NEW t \in Targets,
           NEW s \in TargetState \ {"no_response"},
           observe_response(t, s), heard' = heard \cup {<<t, s>>}
    PROVE  ConflictsOK'
<1> SUFFICES ASSUME NEW u \in Targets
             PROVE  conflicts'[u] > 0 <=> Disagree(u)'
  BY DEF ConflictsOK
<1>1. conflicts[u] > 0 <=> Disagree(u)
  BY DEF ReplyInv, ConflictsOK
<1>2. /\ conflicts \in [Targets -> Word]
      /\ state[t].state \in TargetState
      /\ <<t, "no_response">> \notin heard
  BY DEF ReplyInv, TypeOK, Word
<1>3. CASE u # t
  <2>1. conflicts'[u] = conflicts[u]
    BY <1>2, <1>3 DEF observe_response
  <2>2. Kinds(u)' = Kinds(u)
    BY <1>3 DEF Kinds
  <2> QED BY <2>1, <2>2, <1>1 DEF Disagree
<1>4. CASE u = t /\ state[t].state = "no_response"
  <2>1. conflicts'[t] = conflicts[t]
    BY <1>2, <1>4 DEF observe_response, conflicting
  <2>2. ASSUME NEW k \in Kinds(t) PROVE FALSE
    <3>1. k \in TargetState /\ <<t, k>> \in heard
      BY <2>2 DEF Kinds
    <3>2. rank(k) <= rank("no_response")
      BY <3>1, <1>4 DEF ReplyInv, BestAnswerKept
    <3>3. k = "no_response"
      BY <3>1, <3>2, <1>2, <1>4, Ranks
    <3> QED BY <3>1, <3>3, <1>2
  <2>3. Kinds(t)' = {s}
    BY <2>2 DEF Kinds
  <2> QED BY <2>1, <2>2, <2>3, <1>1, <1>4 DEF Disagree
<1>5. CASE u = t /\ state[t].state = s
  <2>1. conflicts'[t] = conflicts[t]
    BY <1>2, <1>5 DEF observe_response, conflicting
  <2>2. <<t, s>> \in heard
    BY <1>5 DEF ReplyInv, BestAnswerKept
  <2>3. Kinds(t)' = Kinds(t)
    BY <2>2 DEF Kinds
  <2> QED BY <2>1, <2>3, <1>1, <1>5 DEF Disagree
<1>6. CASE u = t /\ state[t].state # "no_response" /\ state[t].state # s
  <2>1. conflicts[t] + 1 \in Nat /\ conflicts[t] + 1 > 0
    BY <1>2, RepliesAssumption DEF Word
  <2>2. conflicts'[t] > 0
    BY <2>1, <1>2, <1>6, Saturated DEF observe_response, conflicting
  <2>3. state[t].state \in Kinds(t)' /\ s \in Kinds(t)'
    BY <1>2, <1>6 DEF ReplyInv, BestAnswerKept, Kinds
  <2> QED BY <2>2, <2>3, <1>6 DEF Disagree
<1> QED BY <1>3, <1>4, <1>5, <1>6

LEMMA StepBest == ReplyInv /\ [Next]_vars => BestAnswerKept' /\ ConflictsOK'
<1> SUFFICES ASSUME ReplyInv, [Next]_vars, HeaderFound
             PROVE  BestAnswerKept' /\ ConflictsOK'
  BY DEF BestAnswerKept, ConflictsOK, HeaderFound
<1>1. CASE UNCHANGED <<state, conflicts, heard>>
  <2>1. BestAnswerKept'
    BY <1>1 DEF ReplyInv, BestAnswerKept
  <2>2. \A t \in Targets : Disagree(t)' <=> Disagree(t)
    BY <1>1 DEF Disagree, Kinds
  <2>3. ConflictsOK'
    BY <1>1, <2>2 DEF ReplyInv, ConflictsOK
  <2> QED BY <2>1, <2>3
<1>2. ASSUME NEW syn \in wire, NEW what \in TcpKind \cup IcmpKind,
             ReceiveAnswer(syn, what)
      PROVE  BestAnswerKept' /\ ConflictsOK'
  <2>1. Observed(Answer(syn, what))
          <=> Recognisable(syn) /\ what \notin {"ack", "echo"}
    BY AnswerBelieved DEF ReplyInv
  <2>2. /\ Answer(syn, what).remote = syn.to
        /\ Answer(syn, what).what = what
    BY DEF Answer
  <2>3. CASE Observed(Answer(syn, what))
    <3>1. syn.to \in Targets /\ Meaning(what) \in TargetState \ {"no_response"}
      BY <2>2, <2>3, ObservedMeans
    <3>2. observe_response(syn.to, Meaning(what))
      BY <1>2, <2>2, <2>3 DEF ReceiveAnswer, Handle
    <3>3. heard' = heard \cup {<<syn.to, Meaning(what)>>}
      BY <1>2, <2>1, <2>3 DEF ReceiveAnswer
    <3> QED BY <3>1, <3>2, <3>3, ObserveBest, ObserveConflicts
  <2>4. CASE ~Observed(Answer(syn, what))
    BY <1>1, <1>2, <2>1, <2>4 DEF ReceiveAnswer, Handle, fileVars
  <2> QED BY <2>3, <2>4
<1>3. ASSUME NEW f \in Frame, ReceiveStray(f)
      PROVE  UNCHANGED <<state, conflicts, heard>>
  BY <1>3, StrayIgnored DEF ReceiveStray, Handle, fileVars
<1>4. \/ UNCHANGED <<state, conflicts, heard>>
      \/ \E syn \in wire, what \in TcpKind \cup IcmpKind :
            ReceiveAnswer(syn, what)
      \/ \E f \in Frame : ReceiveStray(f)
  BY DEF Next, vars, fileVars, SendSyn, BeginReceive, EndReceive, NextRound,
     Restart, Tick
<1> QED BY <1>1, <1>2, <1>3, <1>4

LEMMA InitReply == Init => ReplyInv
<1> SUFFICES ASSUME Init PROVE ReplyInv
  OBVIOUS
<1>1. TypeOK
  BY InitTypes
<1>2. WireOK
  BY DEF Init, WireOK
<1>3. BestAnswerKept
  BY DEF Init, BestAnswerKept, Silent
<1>4. ConflictsOK
  BY DEF Init, ConflictsOK, Disagree, Kinds
<1> QED BY <1>1, <1>2, <1>3, <1>4 DEF ReplyInv

LEMMA StepReply == ReplyInv /\ [Next]_vars => ReplyInv'
  BY StepTypes, StepWire, StepBest DEF ReplyInv

-----------------------------------------------------------------------------

(* Every variable keeps its type, the counters their width, whatever is    *)
(* received.                                                               *)
THEOREM TypeCorrect == Spec => []TypeOK
<1>1. TypeOK /\ [Next]_vars => TypeOK'
  BY StepTypes
<1> QED BY <1>1, InitTypes, PTL DEF Spec

(* The state of a target is the best answer it gave to a SYN the process   *)
(* can recognise (observe_response after handle_tcp_reply and              *)
(* handle_icmp_reply), for any number of late, repeated, reordered and     *)
(* unrelated frames and of restarts.                                       *)
THEOREM BestAnswerIsKept == Spec => []BestAnswerKept
<1>1. ReplyInv => BestAnswerKept
  BY DEF ReplyInv
<1> QED BY <1>1, InitReply, StepReply, PTL DEF Spec

(* conflicting_observations is positive exactly for the targets that gave  *)
(* answers of different kinds: the count never misses a disagreement, and  *)
(* repeats never raise it.                                                 *)
THEOREM ConflictsAreDisagreements == Spec => []ConflictsMeanDisagreement
<1>1. ASSUME NEW K, K \subseteq TargetState
      PROVE  Cardinality(K) > 1 <=> \E a, b \in K : a # b
  <2>1. IsFiniteSet(TargetState)
    <3>1. IsFiniteSet({"no_response"}) /\ IsFiniteSet({"unreachable"})
          /\ IsFiniteSet({"closed"}) /\ IsFiniteSet({"open"})
      BY FS_Singleton
    <3>2. TargetState = ({"no_response"} \cup {"unreachable"})
                          \cup ({"closed"} \cup {"open"})
      BY DEF TargetState
    <3> QED BY <3>1, <3>2, FS_Union
  <2>2. IsFiniteSet(K)
    BY <1>1, <2>1, FS_Subset
  <2>3. Cardinality(K) \in Nat /\ (Cardinality(K) = 0 <=> K = {})
    BY <2>2, FS_CardinalityType, FS_EmptySet
  <2>4. Cardinality(K) = 1 <=> \E a : K = {a}
    BY <2>2, FS_Singleton
  <2>5. K = {} \/ (\E a : K = {a}) \/ (\E a, b \in K : a # b)
    OBVIOUS
  <2>6. (\E a, b \in K : a # b) => K # {} /\ ~\E a : K = {a}
    OBVIOUS
  <2>7. Cardinality(K) > 1 <=> Cardinality(K) # 0 /\ Cardinality(K) # 1
    BY <2>3
  <2> QED BY <2>3, <2>4, <2>5, <2>6, <2>7
<1>2. ASSUME NEW t \in Targets
      PROVE  Disagree(t) <=> Cardinality({s \in TargetState :
                                            <<t, s>> \in heard}) > 1
  <2>1. Kinds(t) \subseteq TargetState
    BY DEF Kinds
  <2>2. Cardinality(Kinds(t)) > 1 <=> \E a, b \in Kinds(t) : a # b
    BY <2>1, <1>1
  <2> QED BY <2>2 DEF Disagree, Kinds
<1>3. ReplyInv => ConflictsMeanDisagreement
  BY <1>2 DEF ReplyInv, ConflictsOK, ConflictsMeanDisagreement
<1> QED BY <1>3, InitReply, StepReply, PTL DEF Spec
-----------------------------------------------------------------------------
(* Round-trip times.  If every process has ports of its own, a reply that  *)
(* is recognised is to a SYN of this process, so sent_at is the time of    *)
(* the target's last SYN on this process's clock, and the receive that     *)
(* takes it began no earlier.                                              *)

Port(i, r) == port_hash[i, r]

OriginOK == \A syn \in wire : \E i \in 1 .. run : syn.from = Port(i, syn.to)

Latest(t, s) == s.to = t /\ \A o \in wire : o.to = t => o.at <= s.at

OwnSent(t) == \E syn \in wire : syn.to = t /\ syn.from = Port(run, t)

(* sent_at on the clock of this process *)
Clock(at) == least(at - start, U32 - 1)

SentOK ==
    \A t \in Targets : OwnSent(t) =>
        \A s \in wire : Latest(t, s) => s.at >= start /\ sent_at[t] = Clock(s.at)

ReceiveOK ==
    pc = "receive" =>
        \E T \in start .. wall : now = Clock(T) /\ \A s \in wire : s.at <= T

ClockInv == OriginOK /\ SentOK /\ ReceiveOK

LEMMA OwnPort ==
    ASSUME source_port = 0, NEW r
    PROVE  local_source_port(r) = Port(run, r)
  BY Zenon DEF local_source_port, Port

LEMMA PortsDiffer ==
    ASSUME OwnPorts, NEW i \in Run, NEW j \in Run, NEW r \in Remote, i # j
    PROVE  Port(i, r) # Port(j, r)
  BY Zenon DEF OwnPorts, Port

(* A new SYN is the latest to its target; it is noted with its time.       *)
LEMMA SendClock ==
    ASSUME source_port = 0, TypeOK, ClockInv, NEW t \in Targets, SendSyn(t)
    PROVE  ClockInv'
<1> DEFINE new == [to |-> t, from |-> local_source_port(t),
                   seq |-> syn_cookie(t), at |-> wall]
<1>1. /\ wire' = wire \cup {new} /\ pc = "send" /\ pc' = pc
      /\ UNCHANGED <<run, start, wall>>
      /\ sent_at' = [sent_at EXCEPT ![t] = Clock(wall)]
  BY DEF SendSyn, procVars, elapsed_ms, Clock
<1>2. /\ new.to = t /\ new.from = Port(run, t) /\ new.at = wall
      /\ run \in 1 .. run
  BY OwnPort DEF TypeOK, Run
<1>3. /\ \A s \in wire : s.at \in Int /\ s.at <= wall
      /\ wall \in Int /\ start \in Int /\ start <= wall
      /\ sent_at \in [Targets -> 0 .. U32 - 1]
  BY DEF TypeOK
<1> HIDE DEF new
<1>4. OriginOK'
  BY <1>1, <1>2 DEF ClockInv, OriginOK
<1>5. ASSUME NEW u \in Targets, OwnSent(u)', NEW s \in wire', Latest(u, s)'
      PROVE  s.at >= start' /\ sent_at'[u] = Clock(s.at)'
  <2>1. CASE u = t
    <3>1. s.at = wall
      BY <1>1, <1>2, <1>3, <1>5, <2>1 DEF Latest
    <3> QED BY <1>1, <1>3, <2>1, <3>1 DEF Clock
  <2>2. CASE u # t
    <3>1. OwnSent(u)
      BY <1>1, <1>2, <1>5, <2>2 DEF OwnSent
    <3>2. s \in wire /\ Latest(u, s)
      BY <1>1, <1>2, <1>5, <2>2 DEF Latest
    <3>3. s.at >= start /\ sent_at[u] = Clock(s.at)
      BY <3>1, <3>2 DEF ClockInv, SentOK
    <3> QED BY <1>1, <1>3, <2>2, <3>3 DEF Clock
  <2> QED BY <2>1, <2>2
<1>6. SentOK'
  BY <1>5 DEF SentOK
<1>7. ReceiveOK'
  BY <1>1 DEF ReceiveOK
<1> QED BY <1>4, <1>6, <1>7 DEF ClockInv

(* No SYN yet has a port of the process that starts. *)
LEMMA RestartClock ==
    ASSUME OwnPorts, TypeOK, ClockInv, Restart
    PROVE  ClockInv'
<1>1. /\ run \in Run /\ run + 1 \in Run /\ run' = run + 1 /\ run \in Nat
      /\ wire' = wire /\ pc' = "send"
  BY RepliesAssumption DEF TypeOK, Restart, Run, worldVars
<1>2. OriginOK'
  <2>1. \A i \in 1 .. run : i \in 1 .. run'
    BY <1>1
  <2> QED BY <1>1, <2>1 DEF ClockInv, OriginOK
<1>3. ASSUME NEW t \in Targets PROVE ~OwnSent(t)'
  <2> SUFFICES ASSUME NEW syn \in wire, syn.to = t, syn.from = Port(run + 1, t)
               PROVE  FALSE
    BY <1>1 DEF OwnSent
  <2>1. PICK i \in 1 .. run : syn.from = Port(i, t)
    BY DEF ClockInv, OriginOK
  <2>2. i \in Run /\ i # run + 1 /\ t \in Remote
    BY <1>1, RepliesAssumption DEF Run, Remote
  <2> QED BY <1>1, <2>1, <2>2, PortsDiffer
<1>4. SentOK' /\ ReceiveOK'
  BY <1>1, <1>3 DEF SentOK, ReceiveOK
<1> QED BY <1>2, <1>4 DEF ClockInv

LEMMA StepClock ==
    ASSUME source_port = 0, OwnPorts, TypeOK, ClockInv, [Next]_vars
    PROVE  ClockInv'
<1>0. /\ wall \in Int /\ start \in Int /\ start <= wall
      /\ \A s \in wire : s.at \in Int /\ s.at <= wall
  BY DEF TypeOK
<1>1. CASE \E t \in Targets : SendSyn(t)
  BY <1>1, SendClock
<1>2. CASE Restart
  BY <1>2, RestartClock
<1>3. CASE /\ UNCHANGED <<run, start, wire, sent_at>>
           /\ wall' \in Int /\ wall' >= wall
           /\ \/ pc' = pc /\ now' = now
              \/ pc' = "send"
              \/ now' = elapsed_ms
  <2>1. OriginOK'
    BY <1>3 DEF ClockInv, OriginOK
  <2>2. \A t \in Targets : OwnSent(t)' <=> OwnSent(t)
    BY <1>3 DEF OwnSent
  <2>3. \A t \in Targets, s \in wire : Latest(t, s)' <=> Latest(t, s)
    BY <1>3 DEF Latest
  <2>4. SentOK'
    BY <1>3, <2>2, <2>3 DEF ClockInv, SentOK, Clock
  <2>5. ReceiveOK'
    <3>1. CASE pc' = pc /\ now' = now
      <4>1. \A T \in start .. wall : T \in start' .. wall'
        BY <1>0, <1>3
      <4> QED BY <1>3, <3>1, <4>1 DEF ClockInv, ReceiveOK, Clock
    <3>2. CASE pc' = "send"
      BY <3>2 DEF ReceiveOK
    <3>3. CASE now' = elapsed_ms
      <4>1. wall \in start' .. wall' /\ \A s \in wire' : s.at <= wall
        BY <1>0, <1>3
      <4>2. ASSUME NEW T \in start' .. wall', now' = least(T - start', U32 - 1),
                   \A s \in wire' : s.at <= T
            PROVE  ReceiveOK'
        BY <4>2 DEF ReceiveOK, Clock
      <4>3. now' = least(wall - start', U32 - 1)
        BY <1>3, <3>3 DEF elapsed_ms
      <4> QED BY <4>1, <4>2, <4>3
    <3> QED BY <1>3, <3>1, <3>2, <3>3
  <2> QED BY <2>1, <2>4, <2>5 DEF ClockInv
<1>4. CASE Tick
  <2>1. wall' \in Int /\ wall' >= wall
    BY <1>0, <1>4 DEF Tick
  <2> QED BY <1>3, <1>4, <2>1 DEF Tick, fileVars, procVars
<1>5. CASE BeginReceive \/ EndReceive \/ NextRound \/ UNCHANGED vars
  <2>1. wall' = wall /\ wall' \in Int /\ wall' >= wall
    BY <1>0, <1>5 DEF BeginReceive, EndReceive, NextRound, vars, worldVars
  <2>2. /\ UNCHANGED <<run, start, wire, sent_at>>
        /\ (pc' = pc /\ now' = now) \/ pc' = "send" \/ now' = elapsed_ms
    BY <1>5 DEF BeginReceive, EndReceive, NextRound, vars, fileVars, procVars, worldVars
  <2> QED BY <1>3, <2>1, <2>2
<1>6. CASE \/ \E syn \in wire, what \in TcpKind \cup IcmpKind : ReceiveAnswer(syn, what)
           \/ \E f \in Frame : ReceiveStray(f)
  <2>1. ASSUME NEW f, Handle(f) PROVE UNCHANGED sent_at
    BY <2>1 DEF Handle, observe_response, fileVars
  <2>2. UNCHANGED <<pc, run, start, now, wall, wire, sent_at>>
    <3>1. ASSUME NEW syn, NEW what, ReceiveAnswer(syn, what)
          PROVE  UNCHANGED <<pc, run, start, now, wall, wire, sent_at>>
      BY <2>1, <3>1 DEF ReceiveAnswer, procVars
    <3>2. ASSUME NEW f, ReceiveStray(f)
          PROVE  UNCHANGED <<pc, run, start, now, wall, wire, sent_at>>
      BY <2>1, <3>2 DEF ReceiveStray, procVars, worldVars
    <3> QED BY <1>6, <3>1, <3>2
  <2>3. wall' \in Int /\ wall' >= wall
    BY <1>0, <2>2
  <2> QED BY <1>3, <2>2, <2>3
<1> QED BY <1>1, <1>2, <1>4, <1>5, <1>6 DEF Next

(* The time that response_rtt_us measures is no longer than it was. *)
LEMMA RttBound ==
    ASSUME TypeOK, NEW t \in Targets, NEW at \in start .. wall,
           NEW T \in at .. wall, sent_at[t] = Clock(at), now = Clock(T)
    PROVE  saturating(response_rtt_us(t) + 1) - 1 <= Micros * (wall - at)
<1>0. /\ U32 \in Nat /\ U32 > 1 /\ Micros \in Nat /\ start \in Nat /\ wall \in Nat
      /\ at \in Nat /\ T \in Nat /\ start <= at /\ at <= T /\ T <= wall
  BY RepliesAssumption DEF TypeOK
<1>1. PICK d \in Nat : d = now - sent_at[t] /\ d <= wall - at /\ d < U32
  BY <1>0 DEF Clock, least
<1>2. wrapping_sub(now, sent_at[t]) = d
  BY <1>0, <1>1 DEF wrapping_sub
<1>3. PICK b \in Nat, m \in Nat : b = Micros * (wall - at) /\ m = d * Micros /\ m <= b
  <2>1. wall - at \in Nat /\ Micros * (wall - at) \in Nat /\ d * Micros \in Nat
    BY <1>0, Times
  <2>2. PICK k \in Nat : k = (wall - at) - d
    BY <1>0, <1>1
  <2>3. Micros * (wall - at) = d * Micros + Micros * k
    BY <1>0, <1>1, <2>2
  <2>4. Micros * k \in Nat
    BY <1>0, Times
  <2> QED BY <2>1, <2>3, <2>4
<1>4. response_rtt_us(t) = saturating(m)
  BY <1>2, <1>3, Zenon DEF response_rtt_us
<1>5. saturating(saturating(m) + 1) - 1 <= b
  BY <1>0, <1>3 DEF saturating, least
<1>6. saturating(response_rtt_us(t) + 1) - 1 <= b
  BY <1>4, <1>5, Zenon
<1> QED BY <1>3, <1>6, Zenon

LEMMA RttStep ==
    ASSUME source_port = 0, ReplyInv, ClockInv, [Next]_vars,
           NEW t \in Targets, rtt'[t] # rtt[t],
           NEW s \in wire, Latest(t, s)
    PROVE  rtt'[t] - 1 <= Micros * (wall - s.at)
<1>1. PICK syn \in wire, what \in TcpKind \cup IcmpKind :
         ReceiveAnswer(syn, what) /\ Observed(Answer(syn, what))
  <2>1. \/ UNCHANGED rtt
        \/ \E syn \in wire, what \in TcpKind \cup IcmpKind : ReceiveAnswer(syn, what)
        \/ \E f \in Frame : ReceiveStray(f)
    BY DEF Next, vars, fileVars, SendSyn, BeginReceive, EndReceive, NextRound,
           Restart, Tick
  <2>2. ASSUME NEW f \in Frame, ReceiveStray(f) PROVE UNCHANGED rtt
    BY <2>2, StrayIgnored DEF ReceiveStray, Handle, fileVars
  <2>3. ASSUME NEW syn \in wire, NEW what \in TcpKind \cup IcmpKind,
               ReceiveAnswer(syn, what), ~Observed(Answer(syn, what))
        PROVE  UNCHANGED rtt
    BY <2>3 DEF ReceiveAnswer, Handle, fileVars
  <2> QED BY <2>1, <2>2, <2>3
<1>2. observe_response(syn.to, Meaning(what)) /\ pc = "receive"
  <2>1. Answer(syn, what).remote = syn.to /\ Answer(syn, what).what = what
    BY DEF Answer
  <2> QED BY <1>1, <2>1 DEF ReceiveAnswer, Handle
<1>3. syn.to = t /\ rtt'[t] = saturating(response_rtt_us(t) + 1)
  BY <1>2 DEF observe_response, ReplyInv, TypeOK
<1>4. syn.from = Port(run, t)
  <2>1. syn.from = local_source_port(syn.to)
    BY <1>1 DEF Observed, valid_tcp, valid_icmp, Answer
  <2> QED BY <1>3, <2>1, OwnPort
<1>5. OwnSent(t)
  BY <1>3, <1>4 DEF OwnSent
<1>6. s.at >= start /\ sent_at[t] = Clock(s.at)
  BY <1>5 DEF ClockInv, SentOK
<1>7. PICK T \in start .. wall : now = Clock(T) /\ \A o \in wire : o.at <= T
  BY <1>2 DEF ClockInv, ReceiveOK
<1>8. s.at \in start .. wall /\ T \in s.at .. wall /\ TypeOK
  BY <1>6, <1>7 DEF ReplyInv, TypeOK
<1> QED BY <1>3, <1>6, <1>7, <1>8, RttBound

(* An RTT is never longer than the time since the target's last SYN, when  *)
(* every process has ports of its own (prepare_syn_batch, receive,         *)
(* response_rtt_us, observe_response).                                     *)
THEOREM RttIsNotOver == Spec => RttNotOver
<1>1. ASSUME source_port = 0, OwnPorts PROVE Spec => [](ReplyInv /\ ClockInv)
  <2>1. Init => ClockInv
    BY DEF Init, ClockInv, OriginOK, SentOK, OwnSent, ReceiveOK
  <2>2. ReplyInv /\ ClockInv /\ [Next]_vars => (ReplyInv /\ ClockInv)'
    BY <1>1, StepReply, StepClock DEF ReplyInv
  <2> QED BY <2>1, <2>2, InitReply, PTL DEF Spec
<1>2. ASSUME ReplyInv, ClockInv, [Next]_vars
      PROVE  [source_port = 0 /\ OwnPorts =>
                \A t \in Targets : rtt'[t] # rtt[t] =>
                   \A syn \in wire :
                      syn.to = t /\ (\A other \in wire :
                                        other.to = t => other.at <= syn.at)
                      => rtt'[t] - 1 <= Micros * (wall - syn.at)]_vars
  BY <1>2, RttStep DEF Latest
<1>3. ASSUME ~(source_port = 0 /\ OwnPorts), [Next]_vars
      PROVE  [source_port = 0 /\ OwnPorts =>
                \A t \in Targets : rtt'[t] # rtt[t] =>
                   \A syn \in wire :
                      syn.to = t /\ (\A other \in wire :
                                        other.to = t => other.at <= syn.at)
                      => rtt'[t] - 1 <= Micros * (wall - syn.at)]_vars
  BY <1>3
<1>4. CASE source_port = 0 /\ OwnPorts
  BY <1>1, <1>2, <1>4, PTL DEF RttNotOver, Spec
<1>5. CASE ~(source_port = 0 /\ OwnPorts)
  BY <1>3, <1>5, PTL DEF RttNotOver, Spec
<1> QED BY <1>4, <1>5

=============================================================================
