-------------------------------- MODULE Util --------------------------------
(***************************************************************************)
(* The library's pure functions: numbers to text and back, the calendar,    *)
(* escapes, splitting and comparison of strings, the search for a bit by    *)
(* halving, and the checksums.  They have no state, so a behaviour is one   *)
(* call of one of them: call is the function with its arguments and result  *)
(* what it returns.                                                         *)
(*                                                                          *)
(* A character is its code and a string a sequence of codes; reading past   *)
(* its end gives the terminating 0.  The buffer of FormatNumber, 32         *)
(* characters, has room for every number and padding that its asserts let   *)
(* through in radix 10 and 16, the two in use.                              *)
(***************************************************************************)
EXTENDS Integers, SequencesExt

CONSTANTS
    Word,           \* how many values an integer has
    Width,          \* the bits of a word that is searched, a power of two
    ByteSize,       \* how many values a byte has where words are summed
    Chars,          \* the characters of strings
    MaxText,        \* bound on their length
    Days            \* the days since 1970 that are converted

VARIABLES call, result

(* What the proofs assume of them: a word can be halved down to a bit, and  *)
(* a string does not contain its terminator.                                *)
UtilAssumption ==
    /\ Word \in Nat \ {0} /\ Word % 2 = 0
    /\ \E W \in SUBSET (1..Width) :
           Width \in W /\ \A n \in W : n = 1 \/ (n % 2 = 0 /\ n \div 2 \in W)
    /\ ByteSize \in Nat \ {0, 1}
    /\ Chars \subseteq 1..255 /\ MaxText \in Nat
    /\ Days \subseteq Nat

vars == <<call, result>>

Texts(chars, n) == BoundedSeq(chars, n)
At(s, i) == IF i \in DOMAIN s THEN s[i] ELSE 0

(* The first place from i on that is not in Skip; the place of the          *)
(* terminator never is.                                                     *)
FirstNot(s, i, Skip) == CHOOSE j \in i..(Len(s) + 1) :
    (\A k \in i..(j - 1) : s[k] \in Skip) /\ (j = Len(s) + 1 \/ s[j] \notin Skip)

ToUpper(c) == IF c \in 97..122 THEN c - 32 ELSE c
ParseHexDigit(c) ==
    CASE c \in 48..57 -> c - 48
      [] ToUpper(c) \in 65..70 -> ToUpper(c) - 65 + 10
      [] OTHER -> -1

-----------------------------------------------------------------------------
(* Numbers *)

Digit(d) == IF d <= 9 THEN d + 48 ELSE d - 10 + 97

MagnitudeKept(val, neg) == val
Magnitude(val, neg) == IF neg THEN Word - val ELSE val

(* Util::FormatNumber; pad is a blank with FMT_SPACEPAD, or a zero. *)
FormatNumber(val, unsigned, pad, radix, digits) ==
    LET neg == ~unsigned /\ val >= Word \div 2
        Shown[v \in 0..Word] ==
            IF v < radix THEN <<Digit(v)>>
            ELSE Append(Shown[v \div radix], Digit(v % radix))
        body == Shown[Magnitude(val, neg)]
    IN  (IF neg THEN <<45>> ELSE <<>>) \o [i \in 1..(digits - Len(body)) |-> pad] \o body

(* strto: the value, and where it ends. *)
strto(s, base) ==
    LET sign == FirstNot(s, 1, 1..32)
        neg == At(s, sign) = 45
        first == IF neg \/ At(s, sign) = 43 THEN sign + 1 ELSE sign
        hex == base \in {0, 16} /\ At(s, first) = 48 /\ ToUpper(At(s, first + 1)) = 88
        from == IF hex THEN first + 2 ELSE first
        radix == IF hex THEN 16 ELSE IF base = 0 THEN 10 ELSE base
        maxdigit == IF radix >= 10 THEN 57 ELSE radix - 1
        end == FirstNot(s, from, (48..maxdigit) \cup
                                 IF radix = 16 THEN (65..70) \cup (97..102) ELSE {})
        Add(r, c) == (r * radix + ParseHexDigit(c)) % Word
        sum == FoldLeft(Add, 0, SubSeq(s, from, end - 1))
    IN  <<IF neg THEN (Word - sum) % Word ELSE sum, end>>

(* Util::ffcw, and ffsw, which is ffcw of the complement: w is the set of   *)
(* its bits, and mask the width of the mask and the bit it is shifted to.   *)
Mask(width, first) == [width |-> width, first |-> first]
Masked(mask) == mask.first..((mask.first + mask.width) - 1)
ffcw(w) ==
    LET Halve[mask \in [width : Nat, first : Nat]] ==
            IF mask.width = 0 THEN -1
            ELSE IF w \cap Masked(mask) = {} THEN mask.first
            ELSE LET low == Mask(mask.width \div 2, mask.first)
                 IN  Halve[IF Masked(low) \subseteq w
                           THEN Mask(low.width, low.first + low.width) ELSE low]
    IN  Halve[Mask(Width, 0)]
ffsw(w) == ffcw((0..(Width - 1)) \ w)

-----------------------------------------------------------------------------
(* The calendar *)

IsLeapYear(year) == year % 4 = 0 /\ (year % 100 # 0 \/ year % 400 = 0)
DaysInYear(year) == IF IsLeapYear(year) THEN 366 ELSE 365
GetMonthSize(year, month) ==
    IF month = 1 /\ IsLeapYear(year) THEN 29
    ELSE <<31, 28, 31, 30, 31, 30, 31, 31, 30, 31, 30, 31>>[month + 1]

(* Time::ToCalendar of the second tod of a day: the year that it is in and  *)
(* the day of the year, then the month.  GetMonthSize asserts that it is    *)
(* not asked for a month after the last.                                    *)
Place(unit, day) == [unit |-> unit, day |-> day]
YearOf(day) ==
    LET Year[at \in [unit : Nat, day : Nat]] ==
            IF at.day < DaysInYear(at.unit) THEN at
            ELSE Year[Place(at.unit + 1, at.day - DaysInYear(at.unit))]
    IN  Year[Place(1970, day)]
MonthOf(year, yday) ==
    LET Month[at \in [unit : 0..11, day : Nat]] ==
            IF at.day < GetMonthSize(year, at.unit) \/ at.unit = 11 THEN at
            ELSE Month[Place(at.unit + 1, at.day - GetMonthSize(year, at.unit))]
    IN  Month[Place(0, yday)]

ToCalendar(day, tod) ==
    LET in == YearOf(day)
        month == MonthOf(in.unit, in.day)
    IN  [sec |-> tod % 60, min |-> (tod % 3600) \div 60, hour |-> tod \div 3600,
         wday |-> (day + 4) % 7, year |-> in.unit - 1900, yday |-> in.day,
         mon |-> month.unit, mday |-> month.day + 1]

-----------------------------------------------------------------------------
(* Strings *)

(* "$&+,/:;=?@'\"<>#%{}|\\~`^[]" *)
Reserved == {36, 38, 43, 44, 47, 58, 59, 61, 63, 64, 39, 34, 60, 62, 35, 37, 123, 125,
             124, 92, 126, 96, 94, 91, 93}
UpperDigit(d) == ToUpper(Digit(d))
UrlEncode(s) ==
    FoldLeft(LAMBDA r, c :
                 r \o IF c <= 32 \/ c >= 127 \/ c \in Reserved
                      THEN <<37, UpperDigit(c \div 16), UpperDigit(c % 16)>> ELSE <<c>>,
             <<>>, s)

(* Whether an escape can start at i.  arglen - 2 is unsigned: a string of   *)
(* one character is looked at beyond its end, which is no digit.            *)
EscapesLate(s, i) == s[i] = 37 /\ (Len(s) < 2 \/ i < Len(s) - 2)
Escapes(s, i) == s[i] = 37 /\ (Len(s) < 2 \/ i <= Len(s) - 2)

UrlDecode(s) ==
    LET Rest[i \in Nat \ {0}] ==
            IF i > Len(s) THEN <<>>
            ELSE IF ~Escapes(s, i) THEN <<s[i]>> \o Rest[i + 1]
            ELSE LET d1 == ParseHexDigit(At(s, i + 1))
                     d2 == ParseHexDigit(At(s, i + 2))
                 IN  IF d1 # -1 /\ d2 # -1 THEN <<d1 * 16 + d2>> \o Rest[i + 3]
                     ELSE <<37>> \o Rest[i + 1]
    IN  Rest[1]

(* strstr from a place on: 0 if there is none, and for an empty divider. *)
strstr(s, from, d) ==
    LET found == {i \in from..(Len(s) - Len(d) + 1) : SubSeq(s, i, i + Len(d) - 1) = d}
    IN  IF d = <<>> \/ found = {} THEN 0 ELSE CHOOSE i \in found : \A j \in found : i <= j

Split(s, divider, maxitems) ==
    LET Rest[at \in [pos : Nat, items : Nat \ {0}]] ==
            LET next == strstr(s, at.pos, divider)
            IN  IF next = 0 \/ at.items = 1 THEN <<SubSeq(s, at.pos, Len(s))>>
                ELSE <<SubSeq(s, at.pos, next - 1)>>
                         \o Rest[[pos |-> next + Len(divider), items |-> at.items - 1]]
    IN  Rest[[pos |-> 1, items |-> maxitems]]

(* strcmp and, if fold, strcasecmp *)
strcmp(s1, s2, fold) ==
    LET Char(s, i) == IF fold THEN ToUpper(At(s, i)) ELSE At(s, i)
        From[i \in Nat \ {0}] ==
            LET c1 == Char(s1, i)
                c2 == Char(s2, i)
            IN  IF c1 # 0 /\ c2 # 0
                THEN IF c1 > c2 THEN 1 ELSE IF c1 < c2 THEN -1 ELSE From[i + 1]
                ELSE IF c1 = 0 /\ c2 = 0 THEN 0 ELSE IF c1 = 0 THEN -1 ELSE 1
    IN  From[1]

-----------------------------------------------------------------------------
(* Checksums *)

Full == ByteSize * ByteSize - 1     \* 0xffff

(* ipcksum of bytes, added to sum *)
ipcksum(block, sum) ==
    LET Sum(s, i) == s + IF i % 2 = 1 THEN block[i] * ByteSize ELSE block[i]
        Folded[s \in Nat] ==
            IF s > Full THEN Folded[(s % (Full + 1)) + (s \div (Full + 1))] ELSE s
    IN  Folded[FoldLeftDomain(Sum, sum, block)]

(* Iph::SetCsum, UDP's and ICMP's CSum: what is put into the sum field of a *)
(* block in which it counts as 0, never 0 itself.  UDP starts from the sum  *)
(* of the pseudo header.                                                    *)
CSum(block, sum) ==
    IF ipcksum(block, sum) = Full THEN Full ELSE Full - ipcksum(block, sum)

Xor(a, b) == (a \ b) \cup (b \ a)

(* Crc16::Update with a byte and Crc16::Checksum, on words as sets of bits; *)
(* 0x1021 is {0, 5, 12}.                                                    *)
Update(crc, d) ==
    LET Step(c, n) == LET up == {b + 1 : b \in c \ {15}}
                      IN  IF 15 \in c THEN Xor(up, {0, 5, 12}) ELSE up
    IN  FoldLeft(Step, Xor(crc, {b + 8 : b \in d}), <<1, 2, 3, 4, 5, 6, 7, 8>>)
Checksum(block, initial) == FoldLeft(Update, initial, block)

-----------------------------------------------------------------------------
Init == call = <<"none">> /\ result = <<>>

Called(c, r) == call = <<"none">> /\ call' = c /\ result' = r

CallsNumber ==
    \E val \in 0..(Word - 1), unsigned \in BOOLEAN, pad \in {32, 48}, radix \in {10, 16},
       digits \in 0..3 :
        Called(<<"FormatNumber", val, unsigned, pad, radix>>,
               FormatNumber(val, unsigned, pad, radix, digits))
CallsSearch ==
    \E w \in SUBSET (0..(Width - 1)) :
        Called(<<"ffcw", w>>, ffcw(w)) \/ Called(<<"ffsw", w>>, ffsw(w))
CallsCalendar ==
    \E day \in Days, tod \in {0, 3599, 86399} :
        Called(<<"ToCalendar", day, tod>>, ToCalendar(day, tod))
CallsEscape ==
    \E s \in Texts(Chars, MaxText) :
        Called(<<"UrlEncode", s>>, UrlEncode(s)) \/ Called(<<"UrlDecode", s>>, UrlDecode(s))
CallsSplit ==
    \E s \in Texts({37, 65}, MaxText + 2), d \in Texts({37, 65}, 2), n \in {1, 2, 9} :
        Called(<<"Split", s, d, n>>, Split(s, d, n))
CallsCompare ==
    \E s1, s2 \in Texts({52, 65, 97}, MaxText), fold \in BOOLEAN :
        Called(<<"strcmp", s1, s2, fold>>, strcmp(s1, s2, fold))
CallsSum ==
    \E block \in Texts(0..(ByteSize - 1), MaxText + 1), sum \in {0, 3, Full + 1, 3 * Full} :
        Called(<<"CSum", block, sum>>, CSum(block, sum))
CallsCrc ==
    \E block \in Texts(SUBSET {0, 3, 7}, 2), initial \in {{}, 0..15} :
        Called(<<"Checksum", block, initial>>, Checksum(block, initial))

Next ==
    \/ CallsNumber \/ CallsSearch \/ CallsCalendar \/ CallsEscape
    \/ CallsSplit \/ CallsCompare \/ CallsSum \/ CallsCrc

Spec == Init /\ [][Next]_vars

-----------------------------------------------------------------------------
(* Correctness *)

(* In closed form: the leap days up to the end of year n, those of year y,  *)
(* the day of the year that month k begins with, and whether date is that   *)
(* of a day and a second in it.                                             *)
LeapDays(n) == (n \div 4 - n \div 100) + n \div 400
Leap(y) == LeapDays(y) - LeapDays(y - 1)
Begin(y, k) == (367 * (k + 1) - 362) \div 12 - IF k < 2 THEN 0 ELSE 2 - Leap(y)
DateOf(day, tod, date) ==
    LET y == date.year + 1900
        m == date.mon
    IN  /\ day = (365 * (y - 1970) + (LeapDays(y - 1) - LeapDays(1969))) + date.yday
        /\ date.yday = Begin(y, m) + (date.mday - 1)
        /\ m \in 0..11 /\ date.mday >= 1 /\ (m < 11 => date.yday < Begin(y, m + 1))
        /\ date.yday < 365 + Leap(y)
        /\ (date.hour * 60 + date.min) * 60 + date.sec = tod
        /\ date.min < 60 /\ date.sec < 60

(* A number that FormatNumber wrote reads back with strto as the same bits, *)
(* to the last character, in either radix, signed or not, the most negative *)
(* one too, however it is padded; only blanks after a minus sign end it     *)
(* early.  The search by halving finds the least clear or set bit of every  *)
(* word.  A date is its day's: counted in closed form it is the same number *)
(* of days, and the time of day adds up.  A block with its checksum in      *)
(* place sums to all ones, of odd length or even, whatever sum it starts    *)
(* from, and the checksum is never 0, which in UDP means none.  A message   *)
(* followed by its CRC has CRC 0, and with a byte changed it has another.   *)
NumbersExact ==
    /\ call[1] = "FormatNumber" =>
           \/ strto(result, call[5]) = <<call[2], Len(result) + 1>>
           \/ call[4] = 32 /\ result[1] = 45 /\ result[2] = 32
    /\ call[1] \in {"ffcw", "ffsw"} =>
           LET sought == IF call[1] = "ffsw" THEN call[2] ELSE (0..(Width - 1)) \ call[2]
           IN  IF sought = {} THEN result = -1
               ELSE result \in sought /\ \A b \in sought : result <= b
    /\ call[1] = "ToCalendar" => DateOf(call[2], call[3], result)
    /\ call[1] = "CSum" =>
           /\ result \in 1..Full
           /\ ipcksum(<<result \div ByteSize, result % ByteSize>> \o call[2], call[3]) = Full
    /\ call[1] = "Checksum" =>
           /\ Checksum(call[2] \o <<{b - 8 : b \in result \ (0..7)}, result \cap 0..7>>,
                       call[3]) = {}
           /\ \A i \in DOMAIN call[2] : \A e \in (SUBSET (0..7)) \ {{}} :
                  Checksum([call[2] EXCEPT ![i] = Xor(@, e)], call[3]) # result

(* Decoding gives back what was encoded, which holds no character that must *)
(* be escaped but the escape, and never makes a string longer.  The pieces  *)
(* of a split put together with the divider are the string, no more of them *)
(* than asked for, and none but a last one cut off by the limit holds the   *)
(* divider.  Comparison is by the first character that differs.             *)
TextExact ==
    /\ call[1] = "UrlEncode" =>
           /\ UrlDecode(result) = call[2]
           /\ \A c \in Range(result) : c \in 33..126 /\ c \notin Reserved \ {37}
    /\ call[1] = "UrlDecode" => Len(result) <= Len(call[2])
    /\ call[1] = "Split" =>
           LET d == call[3]
               Join(r, piece) == r \o d \o piece
           IN  /\ FoldLeft(Join, result[1], Tail(result)) = call[2]
               /\ Len(result) <= call[4]
               /\ \A i \in 1..Len(result) :
                      strstr(result[i], 1, d) = 0 \/ i = call[4]
    /\ call[1] = "strcmp" =>
           LET Key(s) == IF call[4] THEN [i \in DOMAIN s |-> ToUpper(s[i])] ELSE s
               a == Key(call[2])
               b == Key(call[3])
               Below(s, t) == \E n \in 0..Len(s) :
                   /\ n < Len(t) /\ SubSeq(s, 1, n) = SubSeq(t, 1, n)
                   /\ n = Len(s) \/ s[n + 1] < t[n + 1]
           IN  result = IF a = b THEN 0 ELSE IF Below(a, b) THEN -1 ELSE 1
=============================================================================
