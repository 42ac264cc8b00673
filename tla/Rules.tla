-------------------------------- MODULE Rules -------------------------------
(***************************************************************************)
(* Routing rules: what one domain or address rule means, what a group of   *)
(* them is compiled into, and how a compiled group answers.                *)
(*                                                                         *)
(* A name is a sequence of characters, few and short ones.  The tables of  *)
(* domain keys are taken for what DomainMph builds: functions from the     *)
(* keys to their flags.  An address is a sequence of words of bits, the    *)
(* first one the most significant: one word of 32 for IPv4, 16 bytes for   *)
(* IPv6.                                                                   *)
(***************************************************************************)
EXTENDS Integers, Sequences, FiniteSets

CONSTANTS
    Lower,      \* tolower, a function on the upper case letters
    Reserved,   \* the value "include"
    RegexMatches(_, _), \* ngx_regex_exec: of a pattern and a name (external)
    MaxKey,     \* 255
    V4Bits,     \* 32
    V6Bytes,    \* 16
    ByteBits    \* 8

ASSUME RulesAssumption ==
    /\ MaxKey \in Nat /\ V4Bits \in Nat \ {0}
    /\ V6Bytes \in Nat \ {0} /\ ByteBits \in Nat \ {0}
    /\ \A c \in DOMAIN Lower : c # "." /\ Lower[c] # "."

-----------------------------------------------------------------------------
(* Domain rules. *)

Fold(s) == [i \in DOMAIN s |-> IF s[i] \in DOMAIN Lower THEN Lower[s[i]] ELSE s[i]]

\* ngx_stream_mtrojan_rule_domain_type
DomainType(value) ==
    IF value \in {<<>>, Reserved, <<"~">>, <<".">>} THEN "invalid"
    ELSE CASE value[1] = "~" -> "regex"
           [] value[1] = "." -> "suffix"
           [] Len(value) > 2 /\ value[1] = "*" /\ value[2] = "." -> "wildcard"
           [] OTHER -> "exact"

\* What the value says without its mark.
Key(value) ==
    CASE DomainType(value) = "wildcard" -> SubSeq(value, 3, Len(value))
      [] DomainType(value) \in {"suffix", "regex"} -> Tail(value)
      [] OTHER -> value

\* host is one or more characters, a dot and the key.
EndsBelow(host, key) ==
    LET dot == Len(host) - Len(key) IN
    /\ Len(host) > Len(key) + 1
    /\ host[dot] = "."
    /\ Fold(SubSeq(host, dot + 1, Len(host))) = Fold(key)

\* ngx_stream_mtrojan_rule_domain_match: what a rule means.
DomainMatch(value, host) ==
    /\ host # <<>>
    /\ CASE DomainType(value) = "exact" -> Fold(host) = Fold(value)
         [] DomainType(value) = "suffix" ->
                Fold(host) = Fold(Key(value)) \/ EndsBelow(host, Key(value))
         [] DomainType(value) = "wildcard" -> EndsBelow(host, Key(value))
         [] DomainType(value) = "regex" -> RegexMatches(Key(value), host)

-----------------------------------------------------------------------------
(* Tables of domain keys. *)

\* Fault: of equal keys one that is there without its root takes the root away.
MergedToBelow(values) ==
    [k \in {Fold(Key(v)) : v \in values} |->
        IF \E v \in values : Fold(Key(v)) = k /\ DomainType(v) = "wildcard"
        THEN "below" ELSE "root"]

\* Equal keys are merged, and so are their flags.
Merged(values) ==
    [k \in {Fold(Key(v)) : v \in values} |->
        IF \E v \in values : Fold(Key(v)) = k /\ DomainType(v) = "suffix"
        THEN "root" ELSE "below"]

OfType(values, types) ==
    {values[i] : i \in {j \in DOMAIN values : DomainType(values[j]) \in types}}

\* A regex has no key; any other key has its limits.
KeysFit(values) ==
    \A i \in DOMAIN values :
        DomainType(values[i]) = "regex" \/ Len(Key(values[i])) \in 1 .. MaxKey

Lookup(table, key) == IF key \in DOMAIN table THEN table[key] ELSE "none"

-----------------------------------------------------------------------------
(* Address rules.  A rule is what ngx_ptocidr makes of a value: an address  *)
(* of one family and a mask, the address within the mask.                    *)

Families == {"v4", "v6"}

Words(family) == IF family = "v4" THEN 1 ELSE V6Bytes
Width(family) == IF family = "v4" THEN V4Bits ELSE ByteBits
Size(family) == Words(family) * Width(family)

Word(family) == [1 .. Width(family) -> {0, 1}]
Address(family) == [1 .. Words(family) -> Word(family)]

\* Bits of word i among the first prefix bits.
BitsIn(family, prefix, i) ==
    LET left == prefix - Width(family) * (i - 1) IN
    IF left < 0 THEN 0 ELSE IF left > Width(family) THEN Width(family) ELSE left

Mask(family, prefix) ==
    [i \in 1 .. Words(family) |->
        [j \in 1 .. Width(family) |-> IF j <= BitsIn(family, prefix, i) THEN 1 ELSE 0]]

\* The bitwise and of an address and a mask.
And(addr, mask) ==
    [i \in DOMAIN addr |->
        [j \in DOMAIN addr[i] |-> IF mask[i][j] = 1 THEN addr[i][j] ELSE 0]]

\* The number of leading ones, by _ipv4_prefix and _ipv6_prefix.
Prefix(family, mask) == CHOOSE n \in 0 .. Size(family) : Mask(family, n) = mask

Masked(family, addr, prefix) == And(addr, Mask(family, prefix))

\* ngx_ptocidr (external)
Cidr(family, addr, prefix) ==
    [family |-> family, addr |-> Masked(family, addr, prefix), mask |-> Mask(family, prefix)]

\* ngx_stream_mtrojan_rule_ip_match: what a rule means.
IpMatch(rule, target) ==
    target.family = rule.family /\ And(target.addr, rule.mask) = rule.addr

\* The order of numbers within a word, and of words (ngx_memcmp).
Below(v, w) == \E j \in DOMAIN v : v[j] < w[j] /\ \A k \in 1 .. j - 1 : v[k] = w[k]
Before(x, y) == \E i \in DOMAIN x : Below(x[i], y[i]) /\ \A k \in 1 .. i - 1 : x[k] = y[k]

\* ngx_qsort; each element is kept once.
Sorted(S) ==
    CHOOSE elts \in [1 .. Cardinality(S) -> S] :
        \A i, j \in 1 .. Cardinality(S) : i < j => Before(elts[i], elts[j])

\* The addresses of one family and prefix.
Prefixes(family, rules, prefix) ==
    Sorted({Masked(family, rules[i].addr, prefix) : i \in
               {j \in DOMAIN rules : rules[j].family = family
                                        /\ Prefix(family, rules[j].mask) = prefix}})

\* Binary search in a sorted array, by _ipv4_find and _ipv6_find.
Search(elts, x) ==
    LET In[half \in (0 .. Len(elts)) \X (0 .. Len(elts))] ==
            LET left == half[1]
                right == half[2]
                mid == (left + right) \div 2
            IN  IF left >= right THEN 0
                ELSE IF elts[mid + 1] = x THEN 1
                ELSE In[IF Before(elts[mid + 1], x) THEN <<mid + 1, right>> ELSE <<left, mid>>]
    IN  In[<<0, Len(elts)>>]

-----------------------------------------------------------------------------
(* A group of rules. *)

Uncompiled(group) == [tag |-> group.tag, domains |-> group.domains,
                      ips |-> group.ips, compiled |-> FALSE]

\* ngx_stream_mtrojan_route_rules_compile
Compiled(group) ==
    [tag |-> group.tag, domains |-> group.domains, ips |-> group.ips,
     compiled |-> TRUE,
     exact |-> Merged(OfType(group.domains, {"exact"})),
     suffix |-> Merged(OfType(group.domains, {"suffix", "wildcard"})),
     regex |-> OfType(group.domains, {"regex"}),
     elts |-> [family \in Families |->
                  [prefix \in 0 .. Size(family) |-> Prefixes(family, group.ips, prefix)]]]

AnyDomainMatch(values, host) == \E i \in DOMAIN values : DomainMatch(values[i], host)
AnyIpMatch(rules, target) == \E i \in DOMAIN rules : IpMatch(rules[i], target)

\* ngx_stream_mtrojan_route_rules_match_domain
MatchDomain(group, host) ==
    LET name == Fold(host)
        Under(i) == SubSeq(name, i + 1, Len(name))
    IN  IF group.compiled /\ Len(host) <= MaxKey
        THEN \/ Lookup(group.exact, name) # "none"
             \/ Lookup(group.suffix, name) = "root"
             \/ \E i \in DOMAIN name :
                    name[i] = "." /\ Lookup(group.suffix, Under(i)) # "none"
             \/ \E v \in group.regex : DomainMatch(v, host)
        ELSE AnyDomainMatch(group.domains, host)

\* ngx_stream_mtrojan_route_rules_match_ip
MatchIp(group, target) ==
    IF group.compiled
    THEN \E prefix \in 0 .. Size(target.family) :
            Search(group.elts[target.family][prefix],
                   Masked(target.family, target.addr, prefix)) = 1
    ELSE AnyIpMatch(group.ips, target)

\* ngx_stream_mtrojan_route_rules_match_target: a group that has no rules of the
\* target's kind does not match.
MatchTarget(group, target) ==
    IF "domain" \in DOMAIN target
    THEN group.domains # <<>> /\ MatchDomain(group, target.domain)
    ELSE group.ips # <<>> /\ MatchIp(group, target)
=============================================================================
