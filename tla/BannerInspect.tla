--------------------------- MODULE BannerInspect ---------------------------
(***************************************************************************)
(* inspect_banner (scanner.rs): one inspection of one open endpoint, with  *)
(* its attempts.  A server is the bytes it sends; they arrive in pieces of *)
(* any size, may be followed by more without end, and connect, read and    *)
(* write may fail or time out at any point.  Waiting for the budget is the *)
(* business of Limiter, cancelling the task that of ScanJob.               *)
(***************************************************************************)
EXTENDS Framing

CONSTANTS
    Streams,     \* [Protocol -> sets of byte sequences]: what servers send
    Attempts,    \* scan.banner_attempts
    MaxBytes,    \* scan.banner_max_bytes
    ChunkSize,   \* bytes of one read
    KexMin,      \* the shortest payload parse_ssh_kexinit_packet accepts
    Filler,      \* a byte of a server that does not stop
    None

ASSUME InspectAssumption ==
    /\ Attempts \in Nat /\ MaxBytes \in Nat \ {0} /\ ChunkSize \in Nat \ {0}
    /\ KexMin \in Nat \ {0} /\ Filler \in 0 .. 255
    /\ Streams \in [Protocol -> SUBSET Seq(0 .. 255)]
    /\ None \notin {"banner", "kex"}

Mode == {"passive_banner", "version_exchange", "kexinit_probe"}
Status == {"ok", "connect_failed", "timeout", "protocol_mismatch", "oversized"}

VARIABLES
    proto, mode,          \* the service, scan.ssh.probe_mode
    pc, attempt,
    raw, status, parsed,  \* BannerObservation; parsed: None, "banner", "kex"
    rest,                 \* what the server of this connection still sends
    stream,               \* history: all it has sent or will send
    probed,               \* history: connections the client has written to
    faults                \* history: some call failed or timed out

config == <<proto, mode>>
observation == <<raw, status, parsed>>
vars == <<config, pc, attempt, observation, rest, stream, probed, faults>>

terminal_banner_status(s) == s \in {"protocol_mismatch", "oversized"}

-----------------------------------------------------------------------------
(* connect_banner *)

(* The socket cannot be had: the inspection itself fails. *)
ConnectError ==
    /\ pc = "connect" /\ attempt < Attempts
    /\ pc' = "failed" /\ faults' = TRUE
    /\ UNCHANGED <<config, attempt, observation, rest, stream, probed>>

ConnectFails ==
    /\ pc = "connect" /\ attempt < Attempts
    /\ status' \in {"connect_failed", "timeout"}
    /\ attempt' = attempt + 1 /\ faults' = TRUE
    /\ UNCHANGED <<config, pc, raw, parsed, rest, stream, probed>>

(* mutant: the evidence of an earlier attempt is kept *)
ConnectKeepingEvidence ==
    /\ pc = "connect" /\ attempt < Attempts
    /\ \E s \in Streams[proto] : stream' = s /\ rest' = s
    /\ pc' = "read"
    /\ UNCHANGED <<config, attempt, observation, probed, faults>>

Connect ==
    /\ pc = "connect" /\ attempt < Attempts
    /\ \E s \in Streams[proto] : stream' = s /\ rest' = s
    /\ raw' = <<>>
    /\ pc' = "read"
    /\ UNCHANGED <<config, attempt, status, parsed, probed, faults>>

Exhausted ==
    /\ pc = "connect" /\ attempt = Attempts
    /\ pc' = "done"
    /\ UNCHANGED <<config, attempt, observation, rest, stream, probed, faults>>

-----------------------------------------------------------------------------
(* read_banner *)

banner_completion == message_len(proto, raw, MaxBytes)

(* A complete message; an SSH server may be probed further. *)
BannerComplete ==
    /\ pc = "read" /\ banner_completion.tag = "complete"
    /\ raw' = SubSeq(raw, 1, banner_completion.len)
    /\ status' = "ok"
    /\ pc' = IF proto = "ssh" /\ mode # "passive_banner" THEN "identify" ELSE "judge"
    /\ UNCHANGED <<config, attempt, parsed, rest, stream, probed, faults>>

BannerRejected ==
    /\ pc = "read" /\ banner_completion.tag = "error"
    /\ status' = banner_completion.status
    /\ pc' = "judge"
    /\ UNCHANGED <<config, attempt, raw, parsed, rest, stream, probed, faults>>

ReadChunk ==
    /\ pc = "read" /\ banner_completion = More
    /\ \E n \in 1 .. ChunkSize :
          /\ n <= Len(rest)
          /\ raw' = raw \o SubSeq(rest, 1, n)
          /\ rest' = SubSeq(rest, n + 1, Len(rest))
    /\ UNCHANGED <<config, pc, attempt, status, parsed, stream, probed, faults>>

(* The server goes on and on. *)
ReadMore ==
    /\ pc = "read" /\ banner_completion = More /\ rest = <<>>
    /\ \E n \in 1 .. ChunkSize :
          LET bytes == [i \in 1 .. n |-> Filler]
          IN  raw' = raw \o bytes /\ stream' = stream \o bytes
    /\ UNCHANGED <<config, pc, attempt, status, parsed, rest, probed, faults>>

(* The server has closed the connection. *)
ReadEnd ==
    /\ pc = "read" /\ banner_completion = More /\ rest = <<>>
    /\ status' = "protocol_mismatch"
    /\ pc' = "judge"
    /\ UNCHANGED <<config, attempt, raw, parsed, rest, stream, probed, faults>>

ReadFails ==
    /\ pc = "read" /\ banner_completion = More
    /\ status' \in {"connect_failed", "timeout"}
    /\ pc' = "judge" /\ faults' = TRUE
    /\ UNCHANGED <<config, attempt, raw, parsed, rest, stream, probed>>

-----------------------------------------------------------------------------
(* inspect_ssh_stream after the banner; whatever goes wrong here leaves    *)
(* the banner as it is.                                                    *)

WriteFails ==
    /\ pc \in {"identify", "offer"}
    /\ pc' = "judge" /\ faults' = TRUE
    /\ probed' \in IF pc = "identify" THEN {probed, probed + 1} ELSE {probed}
    /\ UNCHANGED <<config, attempt, observation, rest, stream>>

WriteIdentification ==
    /\ pc = "identify"
    /\ probed' = probed + 1
    /\ pc' = IF mode = "kexinit_probe" THEN "offer" ELSE "judge"
    /\ UNCHANGED <<config, attempt, observation, rest, stream, faults>>

WriteKexinit ==
    /\ pc = "offer"
    /\ pc' = "packet"
    /\ UNCHANGED <<config, attempt, observation, rest, stream, probed, faults>>

(* read_ssh_packet: a header of five bytes, then the rest of the packet.    *)
PacketTotal == BigEndian(SubSeq(rest, 1, 4)) + 4
HeaderArrived == Len(rest) >= 5 /\ PacketTotal <= MaxBytes
PacketArrived == HeaderArrived /\ PacketTotal \in 5 .. Len(rest)

(* parse_ssh_kexinit_packet, its name lists left out *)
KexParses(packet) ==
    LET payload == BigEndian(SubSeq(packet, 1, 4)) - packet[5] - 1
    IN  payload >= KexMin /\ packet[6] = 20

KexArrived == PacketArrived /\ KexParses(SubSeq(rest, 1, PacketTotal))

(* A header that announces nothing leaves a buffer shorter than the header *)
(* itself; the slice behind it does not exist and the task panics.         *)
PacketPanics ==
    /\ pc = "packet" /\ HeaderArrived /\ PacketTotal = 4
    /\ pc' = "panicked"
    /\ UNCHANGED <<config, attempt, observation, rest, stream, probed, faults>>

(* A packet that is too long, cut off, or no KEXINIT. *)
PacketUseless ==
    /\ pc = "packet" /\ ~(HeaderArrived /\ PacketTotal = 4) /\ ~KexArrived
    /\ pc' = "judge"
    /\ UNCHANGED <<config, attempt, observation, rest, stream, probed, faults>>

PacketFails ==
    /\ pc = "packet"
    /\ pc' = "judge" /\ faults' = TRUE
    /\ UNCHANGED <<config, attempt, observation, rest, stream, probed>>

Kexinit ==
    /\ pc = "packet" /\ KexArrived
    /\ parsed' = IF parse(proto, raw) THEN "kex" ELSE None
    /\ pc' = "judge"
    /\ UNCHANGED <<config, attempt, raw, status, rest, stream, probed, faults>>

-----------------------------------------------------------------------------
(* The end of an attempt *)

Judged ==
    IF status = "ok" /\ parsed = None
    THEN IF parse(proto, raw)
         THEN parsed' = "banner" /\ status' = "ok"
         ELSE parsed' = None /\ status' = "protocol_mismatch"
    ELSE UNCHANGED <<parsed, status>>

(* mutant: a message that does not parse still counts as a banner *)
JudgeLenient ==
    /\ pc = "judge"
    /\ UNCHANGED status
    /\ parsed' = IF status = "ok" /\ parsed = None /\ parse(proto, raw) THEN "banner" ELSE parsed
    /\ IF status' = "ok" \/ terminal_banner_status(status')
       THEN pc' = "done" /\ UNCHANGED attempt
       ELSE pc' = "connect" /\ attempt' = attempt + 1
    /\ UNCHANGED <<config, raw, rest, stream, probed, faults>>

(* mutant: a message that does not parse is worth another attempt *)
JudgeRetrying ==
    /\ pc = "judge"
    /\ Judged
    /\ IF status' \in {"ok", "oversized"}
       THEN pc' = "done" /\ UNCHANGED attempt
       ELSE pc' = "connect" /\ attempt' = attempt + 1
    /\ UNCHANGED <<config, raw, rest, stream, probed, faults>>

(* mutant: attempts are not counted *)
JudgeUncounted ==
    /\ pc = "judge"
    /\ Judged
    /\ pc' = IF status' = "ok" \/ terminal_banner_status(status') THEN "done" ELSE "connect"
    /\ UNCHANGED <<config, attempt, raw, rest, stream, probed, faults>>

Judge ==
    /\ pc = "judge"
    /\ Judged
    /\ IF status' = "ok" \/ terminal_banner_status(status')
       THEN pc' = "done" /\ UNCHANGED attempt
       ELSE pc' = "connect" /\ attempt' = attempt + 1
    /\ UNCHANGED <<config, raw, rest, stream, probed, faults>>

Init ==
    /\ proto \in Protocol /\ mode \in Mode
    /\ pc = "connect" /\ attempt = 0
    /\ raw = <<>> /\ status = "connect_failed" /\ parsed = None
    /\ rest = <<>> /\ stream = <<>>
    /\ probed = 0 /\ faults = FALSE

Next ==
    \/ ConnectError \/ ConnectFails \/ Connect \/ Exhausted
    \/ BannerComplete \/ BannerRejected
    \/ ReadChunk \/ ReadMore \/ ReadEnd \/ ReadFails
    \/ WriteFails \/ WriteIdentification \/ WriteKexinit
    \/ PacketPanics \/ PacketUseless \/ PacketFails \/ Kexinit
    \/ Judge

Spec == Init /\ [][Next]_vars /\ WF_vars(Next)

-----------------------------------------------------------------------------
(* Properties *)

(* Every variable has its type. *)
TypeOK ==
    /\ proto \in Protocol /\ mode \in Mode
    /\ pc \in {"connect", "read", "identify", "offer", "packet", "judge",
               "done", "failed", "panicked"}
    /\ attempt \in 0 .. Attempts
    /\ raw \in Seq(0 .. 255) /\ status \in Status
    /\ parsed \in {None, "banner", "kex"}
    /\ rest \in Seq(0 .. 255) /\ stream \in Seq(0 .. 255)
    /\ probed \in Nat /\ faults \in BOOLEAN

(* The verdict on the first piece of data that has one, when bytes are     *)
(* received one by one.                                                    *)
FirstVerdict(data) ==
    LET decided == {n \in 0 .. Len(data) :
                      message_len(proto, SubSeq(data, 1, n), MaxBytes) # More}
    IN  IF decided = {} THEN More
        ELSE message_len(proto, SubSeq(data, 1, Min(decided)), MaxBytes)

(* What read_banner makes of a server does not depend on how its bytes are *)
(* cut into reads, as long as no read exceeds banner_max_bytes.            *)
ChunkingIrrelevant ==
    pc = "read" /\ Len(raw) <= MaxBytes =>
        message_len(proto, raw, MaxBytes) = FirstVerdict(raw)

(* Evidence stems from one connection and never mixes two attempts.        *)
EvidenceOfOneAttempt == IsPrefix(raw, stream)

(* A server that sends without end fills at most banner_max_bytes and one  *)
(* read.                                                                   *)
EvidenceBounded == Len(raw) <= MaxBytes + ChunkSize

(* The evidence of a result comes from one connection and is limited. *)
EvidenceSound == EvidenceOfOneAttempt /\ EvidenceBounded

(* A result is ok exactly when parsed fields come with it, and then the    *)
(* evidence is one whole message.                                          *)
ResultConsistent ==
    pc = "done" =>
        /\ status = "ok" <=> parsed # None
        /\ status = "ok" =>
              message_len(proto, raw, MaxBytes) = Complete(Len(raw))

(* The client writes to SSH servers only, in the active modes only, and to *)
(* one connection of an inspection at most.                                *)
OneActiveProbe ==
    probed > 0 => probed = 1 /\ proto = "ssh" /\ mode # "passive_banner"

(* Whatever the server does, the inspection comes to an end.               *)
InspectionEnds == <>(pc \in {"done", "failed", "panicked"})

(* the server's KEXINIT follows its identification and fits               *)
(* banner_max_bytes                                                        *)
KexinitSent ==
    \E n \in 1 .. Len(stream) :
        /\ message_len(proto, SubSeq(stream, 1, n), MaxBytes) = Complete(n)
        /\ LET packet == SubSeq(stream, n + 1, Len(stream))
           IN  /\ Len(packet) \in 6 .. MaxBytes
               /\ BigEndian(SubSeq(packet, 1, 4)) + 4 = Len(packet)
               /\ KexParses(packet)

(* bytes that came in one read with the end of the banner were cut off *)
BytesDropped == Len(stream) # Len(raw) + Len(rest)

(* kexinit_probe "reads the server KEXINIT packet when available, records  *)
(* advertised algorithms" (SAFETY_MODEL.md), in whatever pieces it comes,  *)
(* unless its first bytes came in one read with the end of the banner.     *)
KexinitRecorded ==
    pc = "done" /\ mode = "kexinit_probe" /\ proto = "ssh" /\ status = "ok"
      /\ ~faults /\ ~BytesDropped /\ KexinitSent => parsed = "kex"

(* What an inspection returns agrees with its evidence and leaves out      *)
(* nothing it was asked for.                                               *)
ResultSound == ResultConsistent /\ KexinitRecorded

=============================================================================
