---------------------------- MODULE RegisterWrites ----------------------------
(***************************************************************************)
(* Writing one value to a Modbus device. write_variable() reads the         *)
(* registers of the entry, checks what is there and what is asked, puts the *)
(* new value among the bits that are not its own, and writes whole          *)
(* registers back. The transport is locked throughout, the port only for    *)
(* each call, so another transport of the port may come in between.         *)
(* A register has WordBits bits, and a byte half of them.                   *)
(***************************************************************************)
EXTENDS Integers, Sequences, SequencesExt

CONSTANTS
    WordBits,      \* bits of a register: 16
    FlagDigits,    \* digits a number in a register's range may have, if they are 0 and 1: 5
    DeviceWords,   \* registers of the device: 0..DeviceWords-1
    Spare,         \* registers it answers for beyond them
    Fills,         \* what the registers hold at first
    Fields,        \* the writable entries
    FieldWriters,  \* transports that write to this device
    UnsafeWrites,  \* TRUE: write_type = unsafe
    MaxAsked       \* bound: writes asked for

\* Kinds: "ushort", "short", "uint" and "int" of one and two registers; "bits",
\* "sbits" and "sm" for unsigned, two's complement and sign-magnitude bit
\* fields; "byte"; "flags".
ASSUME RegisterWritesAssumption ==
    /\ WordBits \in {2, 4, 8, 16} /\ {FlagDigits, DeviceWords, Spare, MaxAsked} \subseteq Nat
    /\ Fills \subseteq 0..(2^WordBits - 1) /\ UnsafeWrites \in BOOLEAN
    /\ \A f \in Fields :
          /\ f.by \subseteq FieldWriters /\ f.order \in [words : BOOLEAN, bytes : BOOLEAN]
          /\ f.kind \in {"ushort", "short", "uint", "int", "bits", "sbits", "sm", "byte", "flags"}
          /\ f.mode \in {"R", "RD", "W", "WO"} /\ f.at \in Seq(0..(DeviceWords - 1)) /\ f.at # <<>>
          /\ f.at[1] + Len(f.at) <= DeviceWords
          /\ {f.bit, f.size} \subseteq Nat /\ f.bit + f.size <= Len(f.at) * WordBits
          /\ f.scale \in Nat \ {0} /\ f.asks \subseteq Int

VARIABLES
    registers,  \* the registers of the device
    writing,    \* what each transport is about to write
    asked,      \* bound on the writes asked for
    outcome     \* how the last write of each transport ended

writeVars == <<registers, writing, asked, outcome>>

Words == 0..(DeviceWords - 1)
Word == 2^WordBits
HalfWord == 2^(WordBits \div 2)
----------------------------------------------------------------------------
(* Words, bytes and bits. *)

SwapBytes(w) == (w % HalfWord) * HalfWord + w \div HalfWord
Arranged(ws, order) ==
    LET swapped == [i \in DOMAIN ws |-> IF order.bytes THEN SwapBytes(ws[i]) ELSE ws[i]]
    IN IF order.words THEN Reverse(swapped) ELSE swapped

\* Mutant of ToWords: the bytes stay as they are.
ToWordsPlain(n, k, order) ==
    Arranged([i \in 1..k |-> (n \div 2^(WordBits * (k - i))) % Word], [order EXCEPT !.bytes = FALSE])

\* _bytes_to_register_words() and _register_words_to_bytes()
ToWords(n, k, order) == Arranged([i \in 1..k |-> (n \div 2^(WordBits * (k - i))) % Word], order)
FromWords(ws, order) == FoldLeft(LAMBDA n, w : n * Word + w, 0, Arranged(ws, order))

BitsOf(n, low, size) == (n \div 2^low) % 2^size
\* n with size bits from low on replaced.
\* Mutant of Among: the other bits are cleared.
AmongNone(n, low, size, new) == new * 2^low
Among(n, low, size, new) == n - BitsOf(n, low, size) * 2^low + new * 2^low

Signed(n, size) == IF n >= 2^(size - 1) THEN n - 2^size ELSE n

\* What the bits of an entry mean: process_register_ushort(), and back.
Meaning(f, n) ==
    LET b == BitsOf(n, f.bit, f.size)
    IN CASE f.kind \in {"ushort", "uint", "bits", "byte", "flags"} -> b
         [] f.kind \in {"short", "int", "sbits"} -> Signed(b, f.size)
         [] f.kind = "sm" -> IF b % 2 = 1 THEN -(b \div 2) ELSE b \div 2
Encoded(f, v) ==
    IF f.kind = "sm" THEN (IF v < 0 THEN -v * 2 + 1 ELSE v * 2) ELSE v % 2^f.size

\* The range of the type, which a value that is written has to fit.
Fits(f, v) ==
    CASE f.kind \in {"ushort", "uint", "bits", "byte", "flags"} -> v \in 0..(2^f.size - 1)
      [] f.kind \in {"short", "int", "sbits"} -> v \in (-2^(f.size - 1))..(2^(f.size - 1) - 1)
      [] f.kind = "sm" -> v \in (1 - 2^(f.size - 1))..(2^(f.size - 1) - 1)

\* unit_mod, and the Offset adjustment, which only reading knows.
Shown(f, n) == Meaning(f, n) * f.scale + f.offset
\* int(round(value / unit_mod)), a half to the even neighbour
Rounded(v, d) ==
    LET q == v \div d   r == v % d
    IN IF 2 * r < d THEN q ELSE IF 2 * r > d THEN q + 1 ELSE IF q % 2 = 0 THEN q ELSE q + 1
RawOf(f, v) == IF f.scale = 1 THEN v ELSE Rounded(v, f.scale)

\* validate_registry_entry(): the codes, or the range.
Valid(f, v) == IF f.codes # {} THEN v \in f.codes ELSE v \in f.min..f.max

\* A row of flags is text, and as such read as a decimal number.
ValidNow(f, n) ==
    IF f.kind = "flags" THEN f.codes = {} /\ BitsOf(n, f.bit, f.size) % 2^(f.size - FlagDigits) = 0
    ELSE Valid(f, Shown(f, n))

----------------------------------------------------------------------------
RegisterWritesTypeOK ==
    /\ registers \in [Words -> 0..(Word - 1)] /\ asked \in 0..MaxAsked
    /\ \A w \in FieldWriters :
          /\ writing[w].stage \in {"idle", "asked", "write"}
          /\ writing[w].stage # "idle" => writing[w].field \in Fields
          /\ outcome[w] \in {"none", "done", "refused", "lost"}

Idle == [stage |-> "idle"]
RegisterWritesInit ==
    /\ registers \in [Words -> Fills] /\ asked = 0
    /\ writing = [w \in FieldWriters |-> Idle] /\ outcome = [w \in FieldWriters |-> "none"]

EndWriting(w, how) == writing' = [writing EXCEPT ![w] = Idle] /\ outcome' = [outcome EXCEPT ![w] = how]

\* write_data(): the entry is found and may be written. The lock is taken.
AskWrite(w, f, v) ==
    /\ writing[w].stage = "idle" /\ asked < MaxAsked /\ asked' = asked + 1
    /\ f.mode \notin {"R", "RD"} /\ w \in f.by
    /\ writing' = [writing EXCEPT ![w] = [stage |-> "asked", field |-> f, value |-> v]]
    /\ outcome' = [outcome EXCEPT ![w] = "none"] /\ UNCHANGED registers

\* The registers read_modbus_registers() asks for: one more than the entry has.
Asked(f) == f.at[1]..(f.at[1] + Len(f.at))
\* The registers a write of the entry goes to: from its first one on.
Target(f) == [i \in DOMAIN f.at |-> f.at[1] + i - 1]
Holds(ws) == [i \in DOMAIN ws |-> registers[ws[i]]]

\* The new content of the registers, if the value is one to be written.
Passes(f, v) ==
    /\ UnsafeWrites \/ (ValidNow(f, FromWords(Holds(f.at), f.order)) /\ (f.kind = "flags" \/ Valid(f, v)))
    /\ Fits(f, RawOf(f, v))
Content(f, v) ==
    LET before == FromWords(Holds(Target(f)), f.order)
        whole == f.kind \in {"ushort", "short", "uint", "int"}
        n == IF whole THEN Encoded(f, RawOf(f, v)) ELSE Among(before, f.bit, f.size, Encoded(f, RawOf(f, v)))
    IN ToWords(n, Len(f.at), f.order)

\* write_variable() up to the write.
ReadAndCheck(w) ==
    /\ writing[w].stage = "asked"
    /\ LET f == writing[w].field   v == writing[w].value IN
       \/ EndWriting(w, "lost")        \* no answer, or not all of them
       \/ /\ Asked(f) \subseteq 0..(DeviceWords - 1 + Spare)
          /\ IF Passes(f, v)
                THEN /\ writing' = [writing EXCEPT ![w] =
                                      [stage |-> "write", field |-> f, value |-> v, words |-> Content(f, v)]]
                     /\ UNCHANGED outcome
                ELSE EndWriting(w, "refused")
    /\ UNCHANGED <<registers, asked>>

\* write_registers(): the device takes them; its answer may be lost, and so may
\* the request.
Landed(f, words) ==
    [a \in Words |-> LET i == a - f.at[1] + 1 IN IF i \in DOMAIN words THEN words[i] ELSE registers[a]]
WriteWords(w) ==
    /\ writing[w].stage = "write"
    /\ LET f == writing[w].field IN
       \/ registers' = Landed(f, writing[w].words) /\ \E how \in {"done", "lost"} : EndWriting(w, how)
       \/ UNCHANGED registers /\ EndWriting(w, "lost")
    /\ UNCHANGED asked

RegisterWritesNext ==
    \E w \in FieldWriters :
        \/ \E f \in Fields : \E v \in f.asks : AskWrite(w, f, v)
        \/ ReadAndCheck(w) \/ WriteWords(w)

RegisterWritesSpec == RegisterWritesInit /\ [][RegisterWritesNext]_writeVars

----------------------------------------------------------------------------
(* Properties. *)

\* The registers an entry is of, as one number.
NumberOf(f, regs) == FromWords([i \in DOMAIN f.at |-> regs[f.at[i]]], f.order)

Landing(w) == writing[w].stage = "write" /\ writing'[w].stage = "idle" /\ registers' # registers

\* A write changes the bits of its entry and no others: the registers hold
\* values of other entries too.
NeighboursAreKept ==
    \A w \in FieldWriters : Landing(w) =>
        LET f == writing[w].field
            before == NumberOf(f, registers)
            after == NumberOf(f, registers')
        IN /\ \A a \in Words \ Range(f.at) : registers'[a] = registers[a]
           /\ \A i \in 0..(Len(f.at) * WordBits - 1) :
                 i \notin f.bit..(f.bit + f.size - 1) => BitsOf(after, i, 1) = BitsOf(before, i, 1)

\* What was written reads back as what was asked for, to the last unit of the
\* entry, whatever the order of its words and bytes.
WrittenReadsBack ==
    \A w \in FieldWriters :
        writing[w].stage = "write" /\ outcome'[w] = "done" /\ writing'[w].stage = "idle" =>
            LET f == writing[w].field   d == Shown(f, NumberOf(f, registers')) - writing[w].value
            IN -f.scale < d /\ d < f.scale

\* A device is never sent what the map does not allow.
AllowedIsWritten ==
    \A w \in FieldWriters : Landing(w) /\ ~UnsafeWrites =>
        LET f == writing[w].field
        IN f.mode \in {"W", "WO"} /\ (f.kind = "flags" \/ Valid(f, writing[w].value))

\* The three together: what writes do to the registers is what was asked of them.
WritesAreTrue == [][NeighboursAreKept /\ WrittenReadsBack /\ AllowedIsWritten]_writeVars

\* A write is refused for what is asked or for what the registers hold, and for
\* nothing else.
RefusedWasWrong ==
    [][\A w \in FieldWriters :
          writing[w].stage = "asked" /\ outcome'[w] = "refused" =>
              LET f == writing[w].field
              IN \/ ~Fits(f, RawOf(f, writing[w].value)) \/ ~Valid(f, writing[w].value)
                 \/ ~Valid(f, Shown(f, NumberOf(f, registers)))]_writeVars
=============================================================================
