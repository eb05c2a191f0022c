-------------------------- MODULE MCBannerInspect --------------------------
(* Servers put together from up to Words pieces of each protocol, well-    *)
(* formed or not, and an SSH server that sends its KEXINIT right behind    *)
(* the banner.                                                             *)
EXTENDS BannerInspect

CONSTANT Words

Sentences(words) == {FlattenSeq(s) : s \in UNION {[1 .. n -> words] : n \in 0 .. Words}}

Banner == <<83, 83, 72, DASH, DASH, LF>>       \* SSH--
Packets == {<<0, 0, 0, 2, 0, 20>>, <<0, 0, 0, 9, 0, 20, 1, 1, 1, 1, 1, 1, 1>>,
            <<0, 0, 0, 8, 0, 20, 1, 1, 1, 1, 1, 1>>, <<0, 0, 0, 1, 0>>, <<0, 0, 0, 0, 0>>,
            <<0, 0, 0, 2, 1, 20>>, <<0, 0, 9, 0, 0>>}

SshStreams == {<<83, LF>>, <<83, 83, 72>>, <<>>} \cup {Banner \o k : k \in Packets \cup {<<>>}}

ReplyStreams ==
    Sentences({<<50, 50, 48, DASH, CR, LF>>, <<50, 50, 48, SP>>, <<CR, LF>>, <<CR>>, <<50>>})

RedisStreams ==
    Sentences({<<DOLLAR, 49, CR, LF>>, <<DOLLAR>>, <<DASH, 49>>, <<57>>, <<CR, LF>>, <<PLUS>>})

MysqlStreams ==
    {<<n, 0, k, 0>> \o s : n \in {0, 7}, k \in {0, 1},
        s \in {<<10, 0, 1, 1, 1, 1, 9>>, <<9>>, <<10, 7, 7, 7, 7, 0, 1>>, <<>>}}

PostgresStreams ==
    {<<t, 0, 0, 0, n>> \o s : t \in {69, 33}, n \in {3, 4, 6, 200}, s \in {<<0, 0>>, <<>>}}

MCStreams ==
    ("ssh" :> SshStreams) @@ ("ftp" :> ReplyStreams) @@ ("smtp" :> ReplyStreams)
      @@ ("redis" :> RedisStreams) @@ ("mysql" :> MysqlStreams)
      @@ ("postgres" :> PostgresStreams)

=============================================================================
