----------------------------- MODULE NetConfig -----------------------------
(***************************************************************************)
(* What the arguments of `ipcprobe set` mean and which of them it takes:   *)
(* parseFlags, parseMAC, maskToPrefix, broadcast and the checks of cmdSet, *)
(* cmd/ipcprobe/main.go.                                                   *)
(*                                                                         *)
(* A text is <<what it parses as, bytes>>: an address of 4 or 16 bytes, a  *)
(* MAC of 6, 8 or 20, or something else of so many characters.  An         *)
(* argument is a text, <<"flag", key>> for --key, or <<"flag=", key, text>>*)
(* for --key=text.                                                         *)
(***************************************************************************)
EXTENDS Mhed, Folds, SequencesExt

Empty == <<"other", Nil>>
True  == <<"other", <<116>>>>
Dashes == <<"other", <<45, 45>>>>   \* a flag that was taken for a value

Text == {"addr", "mac", "other"} \X Bytes

Argument ==
    Text \cup ({"flag"} \X STRING) \cup ({"flag="} \X STRING \X Text)

IsText(a) == a[1] \in {"addr", "mac", "other"}
ParseAddr(t) == IF t[1] = "addr" THEN t[2] ELSE Nil
ParseMAC(t)  == IF t[1] = "mac" /\ Len(t[2]) = 6 THEN t[2] ELSE Nil

-----------------------------------------------------------------------------
(* parseFlags: one argument after the other; want is the key whose value comes
   next.                                                                     *)

Given(f, key, text) ==
    [f EXCEPT !.m = [k \in DOMAIN @ \cup {key} |-> IF k = key THEN text ELSE @[k]],
              !.want = {}]

TakeFlag(f, a, bools) ==
    IF f.bad THEN f
    ELSE IF f.want # {}
    THEN Given(f, CHOOSE k \in f.want : TRUE, IF IsText(a) THEN a ELSE Dashes)
    ELSE CASE IsText(a)                            -> [f EXCEPT !.bad = TRUE]
           [] a[1] = "flag="                       -> Given(f, a[2], a[3])
           [] a[1] = "flag" /\ a[2] \in bools      -> Given(f, a[2], True)
           [] a[1] = "flag" /\ a[2] \notin bools   -> [f EXCEPT !.want = {a[2]}]

parseFlags(args, bools) ==
    FoldLeft(LAMBDA f, a : TakeFlag(f, a, bools),
             [m |-> << >>, want |-> {}, bad |-> FALSE], args)

FlagsOK(f) == ~ f.bad /\ f.want = {}

has(f, k) == k \in DOMAIN f.m
str(f, k) == IF has(f, k) THEN f.m[k] ELSE Empty

-----------------------------------------------------------------------------
(* Netmasks *)

(* The high n bits of a byte, for any integer n. *)
High(n) == IF n <= 0 THEN 0 ELSE IF n >= 8 THEN 255 ELSE 256 - 2^(8 - n)

MaskOf(bits) == [k \in 1..4 |-> High(bits - 8 * (k - 1))]

IsMask(m)   == \E n \in 0..32 : m = MaskOf(n)
MaskBits(m) == CHOOSE n \in 0..32 : m = MaskOf(n)

Masked(ip, bits) ==
    [k \in 1..4 |->
        LET low == 256 - High(bits - 8 * (k - 1)) IN ip[k] - (ip[k] % low)]

InPrefix(ip, net, bits) == Is4(ip) /\ Masked(ip, bits) = Masked(net, bits)

(* Mistake: host bits are counted from the first byte. *)
broadcast_Front(ip, bits) ==
    FoldLeft(LAMBDA a, i : [a EXCEPT ![1 + (i \div 8)] = @ + 2^(i % 8)],
             Masked(ip, bits), [i \in 1..32 - bits |-> i - 1])

(* Each host bit, from the lowest, set in the masked address. *)
broadcast(ip, bits) ==
    FoldLeft(LAMBDA a, i : [a EXCEPT ![4 - (i \div 8)] = @ + 2^(i % 8)],
             Masked(ip, bits), [i \in 1..32 - bits |-> i - 1])

-----------------------------------------------------------------------------
(* cmdSet, up to the password *)

(* What the flags ask for; an address that is missing or bad is empty. *)
Asked(f) ==
    LET a(k) == ParseAddr(str(f, k))
    IN  [mac |-> ParseMAC(str(f, "mac")), ip |-> a("ip"), mask |-> a("mask"),
         gw |-> a("gw"), dns1 |-> IF has(f, "dns1") THEN a("dns1") ELSE a("gw"),
         dns2 |-> IF has(f, "dns2") THEN a("dns2") ELSE <<8, 8, 8, 8>>]

IsHost(ip, mask) ==
    LET bits == MaskBits(mask)
    IN  bits < 31 => ip # Masked(ip, bits) /\ ip # broadcast(ip, bits)

Valid(r) ==
    /\ r.mac # Nil
    /\ Is4(r.ip) /\ Is4(r.mask) /\ r.gw # Nil
    /\ IsMask(r.mask)
    /\ IsHost(r.ip, r.mask)
    /\ r.dns1 # Nil /\ r.dns2 # Nil
=============================================================================
