------------------------------ MODULE Targets ------------------------------
(***************************************************************************)
(* From the target files to the endpoints of a job: the range arithmetic   *)
(* of target.rs, the counting and sharding of PreparedJob::create_shard,   *)
(* and the binary search by which replies and old events find their        *)
(* endpoint again.  Addresses have Width bits instead of 32; the special   *)
(* prefixes /30, /31 and /32 are Width - 2, Width - 1 and Width.           *)
(***************************************************************************)
EXTENDS Integers, Sequences, FiniteSets, SequencesExt

CONSTANTS
    Width,           \* bits of an address
    IncludeEntries,  \* lines the operator may write in the include files
    ExcludeEntries,  \* and in the exclude files
    NoPrefix,        \* a line without a slash
    RESERVED_CIDRS,  \* sequences of [base, bits]
    PRIVATE_CIDRS,
    Ports,           \* scan.services: a sequence of distinct ports
    AllPorts,        \* ports a reply or an old event may name
    MaxTargets,      \* targets.max_targets
    ShardCounts,     \* values of --shard-count tried
    ShardIndexes,    \* and of --shard-index
    MaxIncludes,     \* bound: lines of the include files
    MaxExcludes      \* bound: lines of the exclude files

Addresses == 2 ^ Width
Address == 0 .. Addresses - 1
Cidr == [base : Address, bits : 0 .. Width]
Entry == [ip : Address, prefix : 0 .. Width \cup {NoPrefix}]

ASSUME AddressAssumption ==
    /\ Width \in Nat /\ Width >= 2
    /\ \A b \in 0 .. Width : 2 ^ b \in Nat \ {0}
ASSUME EntryAssumption ==
    /\ NoPrefix \notin 0 .. Width
    /\ IncludeEntries \subseteq Entry
    /\ ExcludeEntries \subseteq Entry
    /\ RESERVED_CIDRS \in Seq(Cidr)
    /\ PRIVATE_CIDRS \in Seq(Cidr)
ASSUME ServiceAssumption ==   \* Config::validate refuses a port given twice
    /\ Ports \in Seq(AllPorts) /\ Ports # <<>>
    /\ IsInjective(Ports)
ASSUME CountAssumption ==
    /\ MaxTargets \in Nat \ {0}
    /\ ShardCounts \subseteq Nat \ {0}
    /\ ShardIndexes \subseteq Nat
    /\ MaxIncludes \in Nat
    /\ MaxExcludes \in Nat

VARIABLES
    pc,              \* "edit", "parsed", "prepared", "created", "refused"
    include, exclude,    \* lines of the files
    allow_private,
    includes, excludes,  \* parse_files of each
    ranges,          \* what is left for the job
    shard,           \* <<index, count>>
    endpoints        \* targets.bin and ports.bin: a sequence of <<ip, port>>

targetVars == <<pc, include, exclude, allow_private, includes, excludes, ranges,
                shard, endpoints>>

-----------------------------------------------------------------------------
(* Parsing: a line is an address, or an address and a prefix.              *)

Span(a, b) == [start |-> a, end |-> b]

prefix_of(en) == IF en.prefix = NoPrefix THEN Width ELSE en.prefix

(* the host bits of the address are masked away *)
parse_entry(en) ==
    LET size == 2 ^ (Width - prefix_of(en))
        start == en.ip - (en.ip % size)
    IN  Span(start, start + size - 1)

trim_last_address(r) ==
    IF r.start < r.end THEN <<Span(r.start, r.end - 1)>> ELSE <<>>

parse_entry_targets(en) ==
    IF en.prefix # NoPrefix /\ en.prefix <= Width - 2
    THEN trim_last_address(parse_entry(en))
    ELSE <<parse_entry(en)>>

(* sort_unstable_by_key: any order in which the starts do not fall *)
sort_unstable(rs) ==
    {s \in {[i \in DOMAIN rs |-> rs[p[i]]] :
               p \in Bijection(DOMAIN rs, DOMAIN rs)} :
        \A i \in 1 .. Len(rs) - 1 : s[i].start <= s[i + 1].start}

(* mutant: the end is increased in 32 bits and wraps *)
JoinsWrapped(last, r) == r.start <= (last.end + 1) % Addresses

(* overlapping or adjacent *)
Joins(last, r) == r.start <= last.end + 1

larger(a, b) == IF a >= b THEN a ELSE b

MergeOne(out, r) ==
    IF out # <<>> /\ Joins(Last(out), r)
    THEN [out EXCEPT ![Len(out)].end = larger(@, r.end)]
    ELSE Append(out, r)

Merged(sorted) ==
    LET out[k \in 0 .. Len(sorted)] ==
            IF k = 0 THEN <<>> ELSE MergeOne(out[k - 1], sorted[k])
    IN  out[Len(sorted)]

(* the outcomes of merge *)
merge(rs) == {Merged(s) : s \in sort_unstable(rs)}

(* the outcomes of parse_files *)
parse_files(lines) ==
    merge(FlattenSeq([i \in DOMAIN lines |-> parse_entry_targets(lines[i])]))

-----------------------------------------------------------------------------
(* subtract: both lists are sorted; j never moves back, k looks ahead.     *)

(* the first exclude from j on that does not end before the include *)
SkipTo(ex, j, inc) ==
    CHOOSE k \in j .. Len(ex) + 1 :
        /\ k = Len(ex) + 1 \/ ex[k].end >= inc.start
        /\ \A i \in j .. k - 1 : ex[i].end < inc.start

(* one exclude against the rest of an include, which starts at acc.cur *)
CarveOne(acc, ex, end) ==
    IF acc.over \/ ex.start > end
    THEN [acc EXCEPT !.over = TRUE]
    ELSE LET cur == larger(acc.cur, ex.end + 1)
         IN  [out  |-> IF ex.start > acc.cur
                       THEN Append(acc.out, Span(acc.cur, ex.start - 1))
                       ELSE acc.out,
              cur  |-> cur,
              over |-> cur > end]

(* the excludes from j on *)
Carve(out, inc, ex, j) ==
    LET carved[k \in 0 .. Len(ex)] ==
            IF k < j
            THEN [out |-> out, cur |-> inc.start, over |-> FALSE]
            ELSE CarveOne(carved[k - 1], ex[k], inc.end)
    IN  carved[Len(ex)]

SubtractOne(acc, inc, ex) ==
    LET j == SkipTo(ex, acc.j, inc)
        carved == Carve(acc.out, inc, ex, j)
    IN  [j |-> j,
         out |-> IF carved.cur <= inc.end
                 THEN Append(carved.out, Span(carved.cur, inc.end))
                 ELSE carved.out]

subtract(inc, ex) ==
    LET acc[k \in 0 .. Len(inc)] ==
            IF k = 0 THEN [j |-> 1, out |-> <<>>]
            ELSE SubtractOne(acc[k - 1], inc[k], ex)
    IN  acc[Len(inc)].out

-----------------------------------------------------------------------------
(* The address policy *)

(* base | host_mask *)
cidr_range(c) ==
    LET size == 2 ^ (Width - c.bits)
    IN  Span(c.base, c.base - (c.base % size) + size - 1)

denied_ranges(private_ok) ==
    LET cidrs == RESERVED_CIDRS \o (IF private_ok THEN <<>> ELSE PRIVATE_CIDRS)
    IN  [i \in DOMAIN cidrs |-> cidr_range(cidrs[i])]

(* the outcomes of filter_allowed *)
filter_allowed(rs, private_ok) ==
    {subtract(rs, denied) : denied \in merge(denied_ranges(private_ok))}

is_allowed(a, private_ok) ==
    \A i \in DOMAIN denied_ranges(private_ok) :
        LET r == denied_ranges(private_ok)[i] IN ~(r.start <= a /\ a <= r.end)

-----------------------------------------------------------------------------
(* Materialising a shard *)

count(rs) ==
    LET sum[k \in 0 .. Len(rs)] ==
            IF k = 0 THEN 0 ELSE sum[k - 1] + (rs[k].end - rs[k].start + 1)
    IN  sum[Len(rs)]

iter(rs) ==
    FlattenSeq([i \in DOMAIN rs |->
        [k \in 1 .. rs[i].end - rs[i].start + 1 |-> rs[i].start + k - 1]])

(* every service of every address, in the order create_shard walks them *)
AllEndpoints(rs) ==
    LET ips == iter(rs)
    IN  [k \in 1 .. Len(ips) * Len(Ports) |->
            <<ips[((k - 1) \div Len(Ports)) + 1],
              Ports[((k - 1) % Len(Ports)) + 1]>>]

(* mutant: shards are blocks of the list *)
target_in_shard_blocks(index, i, n) == index \div n = i

target_in_shard(index, i, n) == index % n = i

(* the places of the shard's endpoints in the list of all *)
ShardPlaces(total, i, n) ==
    LET mine[k \in 0 .. total] ==
            IF k = 0 THEN <<>>
            ELSE IF target_in_shard(k - 1, i, n) THEN Append(mine[k - 1], k)
            ELSE mine[k - 1]
    IN  mine[total]

ShardEndpoints(rs, i, n) ==
    LET all == AllEndpoints(rs)
        mine == ShardPlaces(Len(all), i, n)
    IN  [k \in DOMAIN mine |-> all[mine[k]]]

ensure_target_count_valid(n) == n > 0 /\ n <= MaxTargets

-----------------------------------------------------------------------------
(* endpoint_index and find_index: a binary search for the address, then a  *)
(* walk over its ports.  0 stands for "not found".                         *)

(* mutant: the search stops short of the upper half's first element *)
HalveShort(eps, ip, at) ==
    LET mid == (at.lo + at.hi) \div 2
    IN  IF at.lo + 1 >= at.hi THEN at
        ELSE IF eps[mid + 1][1] < ip THEN [at EXCEPT !.lo = mid + 1]
        ELSE [at EXCEPT !.hi = mid]

(* one pass of the loop *)
Halve(eps, ip, at) ==
    LET mid == (at.lo + at.hi) \div 2
    IN  IF at.lo >= at.hi THEN at
        ELSE IF eps[mid + 1][1] < ip THEN [at EXCEPT !.lo = mid + 1]
        ELSE [at EXCEPT !.hi = mid]

(* every pass makes the interval smaller, so it is over after Len(eps) *)
lower_bound(eps, ip) ==
    LET at[k \in 0 .. Len(eps)] ==
            IF k = 0 THEN [lo |-> 0, hi |-> Len(eps)]
            ELSE Halve(eps, ip, at[k - 1])
    IN  at[Len(eps)].lo

endpoint_index(eps, ip, port) ==
    LET lo == lower_bound(eps, ip) + 1
        hits == {i \in lo .. Len(eps) :
                    /\ \A k \in lo .. i : eps[k][1] = ip
                    /\ eps[i][2] = port}
    IN  IF hits = {} THEN 0
        ELSE CHOOSE i \in hits : \A k \in hits : i <= k

-----------------------------------------------------------------------------
(* The operator edits the files; create_shard does the rest.               *)

InitTargets ==
    /\ pc = "edit"
    /\ include = <<>> /\ exclude = <<>>
    /\ allow_private \in BOOLEAN
    /\ includes = <<>> /\ excludes = <<>> /\ ranges = <<>>
    /\ shard = <<0, 1>> /\ endpoints = <<>>

WriteInclude(en) ==
    /\ pc = "edit" /\ Len(include) < MaxIncludes /\ exclude = <<>>
    /\ include' = Append(include, en)
    /\ UNCHANGED <<pc, exclude, allow_private, includes, excludes, ranges,
                   shard, endpoints>>

WriteExclude(en) ==
    /\ pc = "edit" /\ Len(exclude) < MaxExcludes
    /\ exclude' = Append(exclude, en)
    /\ UNCHANGED <<pc, include, allow_private, includes, excludes, ranges,
                   shard, endpoints>>

ParseFiles ==
    /\ pc = "edit"
    /\ includes' \in parse_files(include)
    /\ excludes' \in parse_files(exclude)
    /\ pc' = "parsed"
    /\ UNCHANGED <<include, exclude, allow_private, ranges, shard, endpoints>>

prepare_targets ==
    /\ pc = "parsed"
    /\ ranges' \in filter_allowed(subtract(includes, excludes), allow_private)
    /\ pc' = "prepared"
    /\ UNCHANGED <<include, exclude, allow_private, includes, excludes, shard,
                   endpoints>>

(* refused: an empty target set, too many endpoints, an empty shard *)
create_shard(i, n) ==
    /\ pc = "prepared"
    /\ shard' = <<i, n>>
    /\ IF /\ i < n
          /\ ensure_target_count_valid(count(ranges) * Len(Ports))
          /\ ShardEndpoints(ranges, i, n) # <<>>
       THEN pc' = "created" /\ endpoints' = ShardEndpoints(ranges, i, n)
       ELSE pc' = "refused" /\ endpoints' = endpoints
    /\ UNCHANGED <<include, exclude, allow_private, includes, excludes, ranges>>

NextTargets ==
    \/ \E en \in IncludeEntries : WriteInclude(en)
    \/ \E en \in ExcludeEntries : WriteExclude(en)
    \/ ParseFiles
    \/ prepare_targets
    \/ \E n \in ShardCounts, i \in ShardIndexes : create_shard(i, n)

SpecTargets == InitTargets /\ [][NextTargets]_targetVars

-----------------------------------------------------------------------------
(* Properties *)

Covers(r) == r.start .. r.end

(* What the documents say a line of a target file stands for: the block,   *)
(* without its broadcast address if the prefix is /30 or shorter.          *)
Meant(en) ==
    LET r == parse_entry(en)
    IN  IF en.prefix \in 0 .. Width - 2 THEN Covers(r) \ {r.end} ELSE Covers(r)

MeantBy(lines) == UNION {Meant(lines[i]) : i \in DOMAIN lines}

Scope == {a \in MeantBy(include) \ MeantBy(exclude) :
              is_allowed(a, allow_private)}

(* A job is materialised only from addresses the files and the policy      *)
(* allow, and from all of them: the merged and subtracted ranges are the   *)
(* set difference of what the lines mean, however lines overlap, touch or  *)
(* reach the last address, and iter visits every address once, in order.   *)
ScopeExact ==
    pc \in {"prepared", "created", "refused"} =>
        LET ips == iter(ranges)
        IN  /\ ToSet(ips) = Scope
            /\ \A i \in 1 .. Len(ips) - 1 : ips[i] < ips[i + 1]
            /\ count(ranges) = Cardinality(Scope)

(* `scan --shard-index i --shard-count n` for every i < n probes every     *)
(* endpoint in scope once: each is in the files of exactly one shard, at   *)
(* exactly one place.                                                      *)
ShardsPartition ==
    pc = "prepared" =>
        \A n \in ShardCounts :
            LET files == [i \in 0 .. n - 1 |-> ShardEndpoints(ranges, i, n)]
                places == UNION {{i} \X DOMAIN files[i] : i \in 0 .. n - 1}
            IN  /\ {files[x[1]][x[2]] : x \in places} = Scope \X ToSet(Ports)
                /\ Cardinality(places) = Cardinality(Scope) * Len(Ports)

(* A reply or an old event finds its own endpoint in a shard's files, and  *)
(* one that belongs to no endpoint of the shard finds none.                *)
LookupExact ==
    pc = "created" =>
        \A a \in Address, p \in AllPorts :
            LET i == endpoint_index(endpoints, a, p)
            IN  IF <<a, p>> \in ToSet(endpoints)
                THEN i \in DOMAIN endpoints /\ endpoints[i] = <<a, p>>
                ELSE i = 0

-----------------------------------------------------------------------------
(* What the documents say that the code does not do *)

(* "Excludes always win" (README.md, SAFETY_MODEL.md): no address of an    *)
(* excluded block is a target.                                             *)
ExcludesWin ==
    pc = "prepared" =>
        \A i \in DOMAIN exclude :
            Covers(parse_entry(exclude[i])) \cap ToSet(iter(ranges)) = {}

=============================================================================
