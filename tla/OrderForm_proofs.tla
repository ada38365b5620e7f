-------------------------- MODULE OrderForm_proofs --------------------------
(***************************************************************************)
(* What customers sign, for every set of accounts and any number of        *)
(* submissions: bank details that are verified unless an answer came after *)
(* the account it is about was edited, and the amounts that were typed, in *)
(* floating-point numbers of every precision that has room for them.       *)
(***************************************************************************)
EXTENDS OrderForm, Numbers_proofs

\* A submission that waits for the wallet has a name that a bank gave, that of
\* its own account unless it goes by a late answer.
Vouched(s) ==
    /\ s.account \in Accounts
    /\ s.step = "sign" => /\ s.name \notin Unknown
                          /\ ~s.late => s.name = s.account

\* What the form calls verified is the account it holds, unless the answer was
\* late; a name is one that a bank gave, whatever has been typed since.
FormVouches ==
    /\ accountName \notin Unknown
    /\ recipientVerified /\ accountName # Nothing /\ ~lateAnswer => accountName = account

SubmissionVouched == submission # Nothing => Vouched(submission)
OrphansVouched == \A s \in orphans : Vouched(s)

\* VerifiedUnlessLate is not inductive: the form, and every submission under way,
\* also of a form that is gone, have to vouch for what will be signed.
VerifiedInv == FormVouches /\ SubmissionVouched /\ OrphansVouched /\ VerifiedUnlessLate

LEMMA VerifiedInit == FormAloneInit => VerifiedInv
BY FormAssumption
DEF FormAloneInit, FormInit, VerifiedInv, FormVouches, SubmissionVouched, OrphansVouched,
    VerifiedUnlessLate

\* A submission keeps vouching for its account from one step to the next.
LEMMA ProceedVouches ==
    ASSUME VerifiedInv, NEW here \in BOOLEAN, NEW s,
           here => s \in {submission} \ {Nothing}, ~here => s \in orphans,
           Proceed(here, s)
    PROVE  VerifiedInv'
<1>1. Vouched(s)
    BY DEF VerifiedInv, SubmissionVouched, OrphansVouched
<1>2. CASE SubmitRefused(here, s)
    BY <1>2 DEF SubmitRefused, Over, fields, VerifiedInv, FormVouches, SubmissionVouched,
                OrphansVouched, VerifiedUnlessLate, Vouched
<1>3. CASE Decline(here, s)
    BY <1>3 DEF Decline, Over, fields, VerifiedInv, FormVouches, SubmissionVouched,
                OrphansVouched, VerifiedUnlessLate, Vouched
<1>4. CASE SubmitVerified(here, s)
    <2> DEFINE next == Submission("sign", s.account, s.account, FALSE, s.amount, s.rate)
    <2>1. s.account \notin Unknown
        BY <1>1, <1>4, FormAssumption DEF SubmitVerified, Answers, Vouched
    <2>2. Vouched(next)
        BY <1>1, <2>1 DEF Vouched, Submission
    <2> HIDE DEF next
    <2>3. CASE here
        <3>1. /\ submission' = next /\ accountName' = s.account
              /\ lateAnswer' = (s.account # account)
              /\ UNCHANGED <<account, orphans, signed>>
            BY <1>4, <2>3 DEF SubmitVerified, next
        <3>2. FormVouches'
            BY <2>1, <3>1 DEF FormVouches
        <3>3. SubmissionVouched' /\ OrphansVouched' /\ VerifiedUnlessLate'
            BY <2>2, <3>1 DEF VerifiedInv, SubmissionVouched, OrphansVouched,
                              VerifiedUnlessLate, Vouched
        <3> QED BY <3>2, <3>3 DEF VerifiedInv
    <2>4. CASE ~here
        <3>1. /\ orphans' = (orphans \ {s}) \cup {next}
              /\ UNCHANGED <<account, accountName, recipientVerified, lateAnswer, submission,
                             signed>>
            BY <1>4, <2>4 DEF SubmitVerified, next, fields
        <3>2. OrphansVouched'
            BY <2>2, <3>1 DEF VerifiedInv, OrphansVouched, Vouched
        <3>3. FormVouches' /\ SubmissionVouched' /\ VerifiedUnlessLate'
            BY <3>1 DEF VerifiedInv, FormVouches, SubmissionVouched, VerifiedUnlessLate, Vouched
        <3> QED BY <3>2, <3>3 DEF VerifiedInv
    <2> QED BY <2>3, <2>4
<1>5. CASE Sign(here, s)
    <2>1. s.name \notin Unknown /\ (~s.late => s.name = s.account)
        BY <1>1, <1>5 DEF Sign, Vouched
    <2>2. VerifiedUnlessLate'
        <3>1. PICK order : /\ order.account = s.account /\ order.name = s.name
                           /\ order.late = s.late
                           /\ signed' = signed \cup {order}
            BY <1>5 DEF Sign
        <3> QED BY <2>1, <3>1 DEF VerifiedInv, VerifiedUnlessLate
    <2>3. FormVouches' /\ SubmissionVouched' /\ OrphansVouched'
        BY <1>5, FormAssumption
        DEF Sign, Over, Emptied, fields, VerifiedInv, FormVouches, SubmissionVouched,
            OrphansVouched, Vouched
    <2> QED BY <2>2, <2>3 DEF VerifiedInv
<1> QED BY <1>2, <1>3, <1>4, <1>5 DEF Proceed

\* The customer's own steps, in any order with the answers.
LEMMA FormStepVouches ==
    ASSUME VerifiedInv, FormStep(Typed, Entered)
    PROVE  VerifiedInv'
<1>1. CASE LoadRate
    BY <1>1 DEF LoadRate, fields, VerifiedInv, FormVouches, SubmissionVouched,
                OrphansVouched, VerifiedUnlessLate, Vouched
<1>2. ASSUME NEW a \in Typed, Edit(a) PROVE VerifiedInv'
    BY <1>2 DEF Edit, Unverify, VerifiedInv, FormVouches, SubmissionVouched,
                OrphansVouched, VerifiedUnlessLate, Vouched
<1>3. CASE Verify
    BY <1>3 DEF Verify, fields, VerifiedInv, FormVouches, SubmissionVouched,
                OrphansVouched, VerifiedUnlessLate, Vouched
<1>4. ASSUME NEW holder \in Accounts \cup {Nothing}, Verified(holder) PROVE VerifiedInv'
    <2>1. FormVouches'
        BY <1>4, FormAssumption DEF Verified, Answers, VerifiedInv, FormVouches
    <2>2. SubmissionVouched' /\ OrphansVouched' /\ VerifiedUnlessLate'
        BY <1>4 DEF Verified, VerifiedInv, SubmissionVouched, OrphansVouched,
                    VerifiedUnlessLate, Vouched
    <2> QED BY <2>1, <2>2 DEF VerifiedInv
<1>5. ASSUME NEW n \in Entered, Submit(n) PROVE VerifiedInv'
    <2>1. SubmissionVouched'
        BY <1>5 DEF Submit, Submission, VerifiedInv, FormVouches, SubmissionVouched, Vouched
    <2>2. FormVouches' /\ OrphansVouched' /\ VerifiedUnlessLate'
        BY <1>5 DEF Submit, fields, VerifiedInv, FormVouches, OrphansVouched,
                    VerifiedUnlessLate, Vouched
    <2> QED BY <2>1, <2>2 DEF VerifiedInv
<1>6. ASSUME NEW s \in {submission} \ {Nothing}, Proceed(TRUE, s) PROVE VerifiedInv'
    BY <1>6, ProceedVouches
<1>7. ASSUME NEW s \in orphans, Proceed(FALSE, s) PROVE VerifiedInv'
    BY <1>7, ProceedVouches
<1> QED BY <1>1, <1>2, <1>3, <1>4, <1>5, <1>6, <1>7 DEF FormStep

\* A form that goes leaves its submission behind as it was.
LEMMA PageChangesVouch ==
    ASSUME VerifiedInv, PageChanges
    PROVE  VerifiedInv'
<1>1. CASE Mount
    BY <1>1 DEF Mount, fields, VerifiedInv, FormVouches, SubmissionVouched,
                OrphansVouched, VerifiedUnlessLate, Vouched
<1>2. CASE Unmount
    BY <1>2, FormAssumption
    DEF Unmount, Emptied, VerifiedInv, FormVouches, SubmissionVouched,
        OrphansVouched, VerifiedUnlessLate, Vouched
<1>3. CASE UnmountPage
    BY <1>3, FormAssumption
    DEF UnmountPage, Emptied, VerifiedInv, FormVouches, SubmissionVouched,
        OrphansVouched, VerifiedUnlessLate, Vouched
<1>4. CASE UNCHANGED form
    BY <1>4 DEF form, fields, VerifiedInv, FormVouches, SubmissionVouched,
                OrphansVouched, VerifiedUnlessLate, Vouched
<1> QED BY <1>1, <1>2, <1>3, <1>4 DEF PageChanges

\* handleVerifyRecipient and handleSubmit, whatever is typed while they wait: the
\* name in every order signed is one that a bank gave, and that of the order's own
\* account unless an answer about another account had come after an edit.
THEOREM SignedVerifiedUnlessLate == FormSpec => []VerifiedUnlessLate
<1>1. VerifiedInv /\ [FormNext]_formVars => VerifiedInv'
    <2> SUFFICES ASSUME VerifiedInv, [FormNext]_formVars PROVE VerifiedInv'
        OBVIOUS
    <2>1. CASE FormStep(Typed, Entered)
        BY <2>1, FormStepVouches
    <2>2. CASE PageChanges
        BY <2>2, PageChangesVouch
    <2>3. CASE UNCHANGED formVars
        BY <2>3 DEF formVars, form, fields, VerifiedInv, FormVouches,
                    SubmissionVouched, OrphansVouched, VerifiedUnlessLate, Vouched
    <2> QED BY <2>1, <2>2, <2>3 DEF FormNext
<1>2. VerifiedInv => VerifiedUnlessLate
    BY DEF VerifiedInv
<1> QED BY VerifiedInit, <1>1, <1>2, PTL DEF FormSpec

-----------------------------------------------------------------------------
(***************************************************************************)
(* Amounts.  A rounding moves a number by at most one part in Unit; the    *)
(* integer part of what two or three roundings leave of an exact value is  *)
(* the value, or one less, as long as the value has room in a mantissa.    *)
(***************************************************************************)
Unit == 2^Precision

IsDouble(x) ==
    /\ x.shift \in 0..(2 * Precision) /\ x.mant \in Nat
    /\ 2^(Precision - 1) <= x.mant

\* The number x is between lo / mid and hi / mid of p / q.
Near(x, p, q, lo, mid, hi) ==
    /\ x.mant * q * mid <= p * 2^x.shift * hi
    /\ p * 2^x.shift * lo <= x.mant * q * mid

LEMMA UnitHalves ==
    /\ Precision \in Nat \ {0} /\ Precision - 1 \in Nat
    /\ 2^(Precision - 1) \in Nat \ {0}
    /\ Unit = 2 * 2^(Precision - 1)
    /\ Unit \in Nat \ {0}
<1>1. Precision \in Nat \ {0} /\ Precision - 1 \in Nat
  BY AmountsAssumption
<1>2. 2^(Precision - 1) \in Nat \ {0}
  BY <1>1, PowerPositive
<1>3. 2^((Precision - 1) + 1) = 2 * 2^(Precision - 1)
  BY <1>1, PowerDoubles
<1>4. (Precision - 1) + 1 = Precision
  BY <1>1
<1> DEFINE h == 2^(Precision - 1)
<1>5. Unit = 2 * h /\ h \in Nat \ {0}
  BY <1>2, <1>3, <1>4 DEF Unit
<1> HIDE DEF h
<1>6. Unit \in Nat \ {0}
  BY <1>5
<1> QED
  BY <1>1, <1>5, <1>6 DEF h

\* The scale that Nearest chooses exists if some scale makes the mantissa long
\* enough, and the mantissa it rounds to is off by half a unit at most.
LEMMA NearestRounds ==
    ASSUME NEW p \in Nat, NEW q \in Nat, q > 0,
           NEW s0 \in 0..(2 * Precision), 2^(Precision - 1) * q <= p * 2^s0
    PROVE  /\ IsDouble(Nearest(p, q))
           /\ Near(Nearest(p, q), p, q, Unit - 1, Unit, Unit + 1)
<1> DEFINE h == 2^(Precision - 1)
           Long(s) == h * q <= p * 2^s
           T == {s \in 0..(2 * Precision) : Long(s)}
           Shortest(s) == Long(s) /\ \A t \in 0..(s - 1) : p * 2^t < h * q
           shift == CHOOSE s \in 0..(2 * Precision) : Shortest(s)
           a == p * 2^shift
           up == 2 * (a % q) > q \/ (2 * (a % q) = q /\ (a \div q) % 2 = 1)
           m == IF up THEN a \div q + 1 ELSE a \div q
<1>1. h \in Nat \ {0} /\ Unit = 2 * h /\ Precision \in Nat
  BY UnitHalves
<1>2. \E s \in 0..(2 * Precision) : Shortest(s)
  <2>1. T \in SUBSET Nat /\ s0 \in T
    BY <1>1
  <2> HIDE DEF Long
  <2>2. PICK s \in T : \A t \in T : s <= t
    <3> HIDE DEF T
    <3> QED
      BY <2>1, LeastNumber
  <2>3. ASSUME NEW t \in 0..(s - 1) PROVE p * 2^t < h * q
    <3>1. t \in 0..(2 * Precision) /\ ~(s <= t)
      BY <1>1, <2>2
    <3>2. ~Long(t)
      BY <2>2, <3>1
    <3>3. 2^t \in Nat
      BY <3>1, PowerPositive
    <3> DEFINE w == 2^t
    <3>4. p * w \in Nat /\ h * q \in Nat
      BY <1>1, <3>3
    <3> QED
      BY <3>2, <3>4 DEF Long
  <2> QED
    BY <2>2, <2>3
<1>3. shift \in 0..(2 * Precision) /\ Long(shift)
  <2> HIDE DEF Long
  <2> QED
    BY <1>2
<1>4. Nearest(p, q) = [mant |-> m, shift |-> shift]
  BY DEF Nearest
<1>5. a \in Nat /\ h * q <= a
  <2> HIDE DEF shift, h
  <2>1. shift \in Nat
    BY <1>1, <1>3
  <2>2. 2^shift \in Nat
    BY <2>1, PowerPositive
  <2> QED
    BY <1>1, <1>3, <2>2
<1> HIDE DEF shift, a, h
<1>6. /\ m \in Nat /\ h <= m
      /\ m * q * (2 * h) <= a * (2 * h + 1)
      /\ a * (2 * h - 1) <= m * q * (2 * h)
  <2>1. /\ up \in BOOLEAN /\ (2 * (a % q) > q => up) /\ (up => 2 * (a % q) >= q)
    BY <1>5
  <2> HIDE DEF up
  <2> QED
    BY <1>1, <1>5, <2>1, RoundedQuotient
<1> HIDE DEF m
<1>7. IsDouble(Nearest(p, q))
  BY <1>3, <1>4, <1>6 DEF IsDouble, h
<1>8. Near(Nearest(p, q), p, q, 2 * h - 1, 2 * h, 2 * h + 1)
  BY <1>4, <1>6 DEF Near, a
<1> QED
  BY <1>1, <1>7, <1>8

\* Multiplying a double adds one rounding to what it already was off by.
LEMMA TimesNear ==
    ASSUME NEW x, IsDouble(x), NEW k \in Nat, k > 0,
           NEW p \in Nat, NEW q \in Nat, NEW lo \in Nat, NEW mid \in Nat, NEW hi \in Nat,
           Near(x, p, q, lo, mid, hi)
    PROVE  /\ IsDouble(Times(x, k))
           /\ Near(Times(x, k), p * k, q, lo * (Unit - 1), mid * Unit, hi * (Unit + 1))
<1> DEFINE y == Times(x, k)
           c == 2^x.shift
           d == 2^y.shift
           h == 2^(Precision - 1)
<1>1. /\ Precision \in Nat /\ Unit \in Nat \ {0} /\ h \in Nat \ {0}
      /\ x.shift \in 0..(2 * Precision) /\ x.shift \in Nat /\ x.mant \in Nat /\ h <= x.mant
  BY UnitHalves DEF IsDouble
<1>2. c \in Nat \ {0}
  BY <1>1, PowerPositive
<1>3. x.mant * k \in Nat /\ h * c <= (x.mant * k) * c
  <2> HIDE DEF h, c
  <2>1. h <= x.mant * k
    BY <1>1
  <2> QED
    BY <1>1, <1>2, <2>1
<1>4. /\ IsDouble(y)
      /\ Near(y, x.mant * k, c, Unit - 1, Unit, Unit + 1)
  <2>1. c \in Nat /\ c > 0
    BY <1>2
  <2>2. y = Nearest(x.mant * k, c)
    BY DEF Times
  <2>3. 2^(Precision - 1) * c <= (x.mant * k) * 2^x.shift
    BY <1>3
  <2>4. x.mant * k \in Nat
    BY <1>3
  <2> HIDE DEF c, y, h
  <2> QED
    BY <1>1, <2>1, <2>2, <2>3, <2>4, NearestRounds
<1>5. y.mant \in Nat /\ y.shift \in 0..(2 * Precision) /\ y.shift \in Nat
  BY <1>1, <1>4 DEF IsDouble
<1>6. d \in Nat
  <2> HIDE DEF y
  <2> QED
    BY <1>5, PowerPositive
<1>7. /\ y.mant * c * Unit <= x.mant * k * d * (Unit + 1)
      /\ x.mant * k * d * (Unit - 1) <= y.mant * c * Unit
  BY <1>4 DEF Near
<1>8. x.mant * q * mid <= p * c * hi /\ p * c * lo <= x.mant * q * mid
  BY DEF Near
<1> HIDE DEF y, c, d, h
<1> DEFINE b == x.mant
           m == y.mant
<1>9. b \in Nat /\ m \in Nat /\ c \in Nat /\ c > 0
  BY <1>1, <1>2, <1>5
<1> HIDE DEF b, m
<1>10. Unit + 1 \in Nat /\ Unit - 1 \in Nat /\ Unit \in Nat
  BY <1>1
<1>11. m * q * (mid * Unit) <= p * k * d * (hi * (Unit + 1))
  <2>1. b * q * mid <= p * c * hi /\ m * c * Unit <= b * k * d * (Unit + 1)
    BY <1>7, <1>8 DEF b, m
  <2> QED
    BY <1>6, <1>9, <1>10, <2>1, BoundsCompose
<1>12. p * k * d * (lo * (Unit - 1)) <= m * q * (mid * Unit)
  <2>1. p * c * lo <= b * q * mid /\ b * k * d * (Unit - 1) <= m * c * Unit
    BY <1>7, <1>8 DEF b, m
  <2> QED
    BY <1>6, <1>9, <1>10, <2>1, BoundsCompose
<1>13. Near(y, p * k, q, lo * (Unit - 1), mid * Unit, hi * (Unit + 1))
  BY <1>11, <1>12 DEF Near, m, d
<1> QED
  BY <1>4, <1>13 DEF y

\* An amount has a whole STX at least, and one rounding makes it a double.
LEMMA ParseFloatNear ==
    ASSUME NEW n \in Nat, ValidAmount(n)
    PROVE  /\ n > 0
           /\ IsDouble(ParseFloat(n))
           /\ Near(ParseFloat(n), n, Scale, Unit - 1, Unit, Unit + 1)
<1> DEFINE h == 2^(Precision - 1)
<1>1. /\ Precision - 1 \in 0..(2 * Precision) /\ h \in Nat \ {0}
      /\ Scale \in Nat /\ Scale > 0
  BY UnitHalves, AmountsAssumption
<1>2. Scale <= n
  <2>1. MinSTX * Scale <= n /\ MinSTX \in Nat \ {0}
    BY AmountsAssumption DEF ValidAmount
  <2> QED
    BY <1>1, <2>1
<1>3. h * Scale <= n * h
  <2> HIDE DEF h
  <2> QED
    BY <1>1, <1>2
<1>4. n > 0
  BY <1>1, <1>2
<1>5. 2^(Precision - 1) * Scale <= n * 2^(Precision - 1)
  BY <1>3
<1>6. ParseFloat(n) = Nearest(n, Scale)
  BY DEF ParseFloat
<1> HIDE DEF h
<1> QED
  BY <1>1, <1>4, <1>5, <1>6, NearestRounds

\* What an amount is worth, in minor units, before it is cut to an integer.
Worth(n) == n * Rate * Minor
Exact(n) == Worth(n) \div Scale

\* A mantissa has room for four times the amount, and for four times the parts
\* of a minor unit that it is worth.
LEMMA RoomForAmounts ==
    ASSUME NEW n \in Nat, ValidAmount(n)
    PROVE  /\ Unit \in Nat /\ n > 0 /\ 4 * n <= Unit /\ Scale > 0
           /\ Worth(n) \in Nat /\ 4 * Worth(n) <= Scale * Unit
           /\ \E d, c \in Nat : /\ d > 0 /\ d * Worth(n) = c * Scale
                               /\ 4 * (d * Worth(n)) <= Scale * Unit
<1>1. /\ Scale \in Nat /\ Scale > 0 /\ Rate \in Nat /\ Minor \in Nat /\ MaxSTX \in Nat
      /\ MaxSTX * Scale \in Nat /\ n <= MaxSTX * Scale
  BY AmountsAssumption DEF ValidAmount
<1>2. Unit \in Nat /\ n > 0
  BY UnitHalves, ParseFloatNear
<1>3. 4 * n <= Unit
  <2>1. 4 * MaxSTX * Scale <= Unit
    BY RoomAssumption DEF Unit
  <2>2. 4 * MaxSTX * Scale = 4 * (MaxSTX * Scale)
    BY <1>1
  <2> DEFINE k == MaxSTX * Scale
  <2>3. k \in Nat /\ n <= k /\ 4 * k <= Unit
    BY <1>1, <2>1, <2>2
  <2> HIDE DEF k
  <2> QED
    BY <1>2, <2>3
<1>4. PICK d \in 1..Scale : /\ (d * Rate * Minor) % Scale = 0
                            /\ 4 * MaxSTX * Rate * Minor * d <= Unit
  BY RoomAssumption DEF Unit
<1>5. d \in Nat /\ d > 0
  BY <1>1, <1>4
<1> DEFINE price == Rate * Minor
           w == Worth(n)
           part == d * Rate * Minor
           c == n * (part \div Scale)
<1>6. price \in Nat /\ w = n * price /\ w \in Nat /\ part \in Nat /\ part = d * price
  BY <1>1, <1>5 DEF Worth
<1>7. part \div Scale \in Nat /\ part = (part \div Scale) * Scale
  <2> HIDE DEF part
  <2>1. part % Scale = 0
    BY <1>4 DEF part
  <2> QED
    BY <1>1, <1>6, <2>1, QuotientExact
<1>8. c \in Nat /\ d * w = c * Scale
  <2> DEFINE k == part \div Scale
  <2>1. k \in Nat /\ d * price = k * Scale
    BY <1>6, <1>7
  <2> HIDE DEF part, k, price
  <2>2. d * (n * price) = n * (d * price) /\ n * (k * Scale) = (n * k) * Scale /\ n * k \in Nat
    BY <1>1, <1>5, <1>6, <2>1
  <2> QED
    BY <1>6, <2>1, <2>2 DEF k
<1> HIDE DEF c, w, part
<1>9. 4 * (d * w) <= Scale * Unit
  <2> DEFINE k == d * price
             top == MaxSTX * Scale
  <2>1. k \in Nat /\ top \in Nat /\ n <= top
    BY <1>1, <1>5, <1>6
  <2>2. 4 * MaxSTX * Rate * Minor * d = MaxSTX * (4 * k)
    BY <1>1, <1>5
  <2>3. MaxSTX * (4 * k) <= Unit
    BY <1>4, <2>2
  <2>4. d * w = n * k
    BY <1>5, <1>6
  <2>5. top * k = MaxSTX * k * Scale
    BY <1>1, <1>5
  <2> HIDE DEF k
  <2>6. (MaxSTX * (4 * k)) * Scale <= Unit * Scale
    <3> DEFINE j == MaxSTX * (4 * k)
    <3>1. j \in Nat /\ j <= Unit
      BY <1>1, <2>1, <2>3
    <3> HIDE DEF j
    <3> QED
      BY <1>1, <1>2, <3>1 DEF j
  <2>7. (MaxSTX * (4 * k)) * Scale = 4 * (MaxSTX * k * Scale) /\ Unit * Scale = Scale * Unit
    BY <1>1, <1>2, <2>1
  <2>8. 4 * (top * k) <= Scale * Unit
    BY <2>5, <2>6, <2>7
  <2> HIDE DEF top
  <2>9. n * k <= top * k
    BY <2>1
  <2> DEFINE i == n * k
             j == top * k
  <2>10. i \in Nat /\ j \in Nat /\ i <= j /\ 4 * j <= Scale * Unit /\ Scale * Unit \in Nat
    BY <1>1, <1>2, <2>1, <2>8, <2>9
  <2> HIDE DEF i, j
  <2>11. 4 * i <= Scale * Unit
    BY <2>10
  <2> QED
    BY <2>4, <2>11 DEF i
<1>10. 4 * w <= Scale * Unit
  <2> DEFINE i == d * w
  <2>1. w <= i /\ i \in Nat /\ Scale * Unit \in Nat
    BY <1>1, <1>2, <1>5, <1>6
  <2> HIDE DEF i
  <2>2. 4 * i <= Scale * Unit
    BY <1>9 DEF i
  <2> QED
    BY <1>6, <2>1, <2>2
<1> QED
  BY <1>1, <1>2, <1>3, <1>5, <1>6, <1>8, <1>9, <1>10 DEF w

\* microSTX: the amount itself, or one smallest unit less.
LEMMA MicroSTXFaithful ==
    ASSUME NEW n \in Nat, ValidAmount(n)
    PROVE  MicroSTX(n) \in Nat /\ MicroSTX(n) \in {n - 1, n}
<1> DEFINE y == Times(ParseFloat(n), Scale)
           u == Unit
           d == 2^y.shift
<1>1. /\ u \in Nat \ {0} /\ u - 1 \in Nat /\ u + 1 \in Nat /\ 4 * n <= u /\ n > 0
      /\ Scale \in Nat /\ Scale > 0
  BY UnitHalves, RoomForAmounts, AmountsAssumption
<1>2. IsDouble(ParseFloat(n)) /\ Near(ParseFloat(n), n, Scale, u - 1, u, u + 1)
  BY ParseFloatNear
<1>3. /\ IsDouble(y)
      /\ Near(y, n * Scale, Scale, (u - 1) * (u - 1), u * u, (u + 1) * (u + 1))
  BY <1>1, <1>2, TimesNear
<1> HIDE DEF y
<1>4. y.mant \in Nat /\ y.shift \in Nat
  BY <1>3, UnitHalves DEF IsDouble
<1>5. d \in Nat /\ d > 0
  BY <1>4, PowerPositive
<1>6. /\ y.mant * Scale * (u * u) <= n * Scale * d * ((u + 1) * (u + 1))
      /\ n * Scale * d * ((u - 1) * (u - 1)) <= y.mant * Scale * (u * u)
  BY <1>3 DEF Near
<1>7. /\ n * Scale * ((u + 1) * (u + 1)) < (n + 1) * Scale * (u * u)
      /\ (n - 1) * Scale * (u * u) <= n * Scale * ((u - 1) * (u - 1))
  BY <1>1, TwoRoundings
<1> DEFINE f == u * u
           up == (u + 1) * (u + 1)
           lo == (u - 1) * (u - 1)
           p == n * Scale
           m == y.mant
           z == m \div d
<1>8. /\ f \in Nat /\ f > 0 /\ up \in Nat /\ lo \in Nat /\ p \in Nat /\ m \in Nat
      /\ n + 1 \in Nat /\ n - 1 \in Nat
  BY <1>1, <1>4
<1>9. /\ m * Scale * f <= p * d * up /\ p * d * lo <= m * Scale * f
      /\ p * up < (n + 1) * Scale * f /\ (n - 1) * Scale * f <= p * lo
  BY <1>6, <1>7
<1> HIDE DEF f, up, lo, p, d, m, u
<1>10. z \in Nat /\ z < n + 1
  BY <1>1, <1>5, <1>8, <1>9, BoundsFloor
<1>11. n - 1 <= z
  BY <1>1, <1>5, <1>8, <1>9, BoundsFloor
<1>12. MicroSTX(n) = z
  BY DEF MicroSTX, Floor, y, m, d
<1> HIDE DEF z
<1> QED
  BY <1>10, <1>11, <1>12

\* The product with the rate, and the product of that with the minor units.
LEMMA ProductsNear ==
    ASSUME NEW n \in Nat, ValidAmount(n)
    PROVE  LET x == Times(ParseFloat(n), Rate)
               z == Times(x, Minor)
               u == Unit IN
           /\ IsDouble(x)
           /\ Near(x, n * Rate, Scale, (u - 1) * (u - 1), u * u, (u + 1) * (u + 1))
           /\ IsDouble(z)
           /\ Near(z, Worth(n), Scale, (u - 1) * (u - 1) * (u - 1), u * u * u,
                   (u + 1) * (u + 1) * (u + 1))
           /\ Near(z, x.mant * Minor, 2^x.shift, u - 1, u, u + 1)
<1> DEFINE x == Times(ParseFloat(n), Rate)
           z == Times(x, Minor)
           u == Unit
<1>1. /\ u \in Nat /\ u - 1 \in Nat /\ u + 1 \in Nat /\ Scale \in Nat
      /\ Rate \in Nat /\ Rate > 0 /\ Minor \in Nat /\ Minor > 0
  BY UnitHalves, AmountsAssumption
<1>2. IsDouble(ParseFloat(n)) /\ Near(ParseFloat(n), n, Scale, u - 1, u, u + 1)
  BY ParseFloatNear
<1>3. /\ IsDouble(x)
      /\ Near(x, n * Rate, Scale, (u - 1) * (u - 1), u * u, (u + 1) * (u + 1))
  BY <1>1, <1>2, TimesNear
<1> HIDE DEF x
<1>4. /\ (u - 1) * (u - 1) \in Nat /\ u * u \in Nat /\ (u + 1) * (u + 1) \in Nat /\ n * Rate \in Nat
  BY <1>1
<1>5. /\ IsDouble(z)
      /\ Near(z, n * Rate * Minor, Scale, (u - 1) * (u - 1) * (u - 1), u * u * u,
              (u + 1) * (u + 1) * (u + 1))
  BY <1>1, <1>3, <1>4, TimesNear
<1>6. x.mant \in Nat /\ x.shift \in Nat
  BY <1>3, UnitHalves DEF IsDouble
<1>7. 2^x.shift \in Nat
  BY <1>6, PowerPositive
<1>8. Near(x, x.mant, 2^x.shift, 1, 1, 1)
  <2> DEFINE d == 2^x.shift
  <2> HIDE DEF d
  <2>1. x.mant * d * 1 <= x.mant * d * 1
    BY <1>6, <1>7 DEF d
  <2> QED
    BY <2>1 DEF Near, d
<1>9. Near(z, x.mant * Minor, 2^x.shift, 1 * (u - 1), 1 * u, 1 * (u + 1))
  <2> DEFINE d == 2^x.shift
             m == x.mant
  <2>1. d \in Nat /\ m \in Nat /\ Near(x, m, d, 1, 1, 1) /\ 1 \in Nat
    BY <1>6, <1>7, <1>8
  <2> HIDE DEF d, m, u
  <2>2. Near(Times(x, Minor), m * Minor, d, 1 * (u - 1), 1 * u, 1 * (u + 1))
    BY <1>1, <1>3, <2>1, TimesNear DEF u
  <2> QED
    BY <2>2 DEF d, m
<1>10. 1 * (u - 1) = u - 1 /\ 1 * u = u /\ 1 * (u + 1) = u + 1
  BY <1>1
<1> HIDE DEF z, u
<1>11. Near(z, x.mant * Minor, 2^x.shift, u - 1, u, u + 1)
  BY <1>9, <1>10
<1> QED
  BY <1>3, <1>5, <1>11 DEF x, z, u, Worth

\* fiatVal: the product with the rate cut to minor units, or one unit less.
LEMMA FiatValFaithful ==
    ASSUME NEW n \in Nat, ValidAmount(n)
    PROVE  /\ FiatVal(n, Rate) \in Nat /\ Exact(n) \in Nat
           /\ FiatVal(n, Rate) \in {Exact(n) - 1, Exact(n)}
<1> DEFINE y == Times(Times(ParseFloat(n), Rate), Minor)
           u == Unit
           d == 2^y.shift
           p == Worth(n)
           e == p \div Scale
           m == y.mant
           z == m \div d
           f == u * u * u
           up == (u + 1) * (u + 1) * (u + 1)
           lo == (u - 1) * (u - 1) * (u - 1)
<1>1. /\ u \in Nat /\ u >= 4 /\ Scale \in Nat /\ Scale > 0 /\ p \in Nat
  BY RoomForAmounts, AmountsAssumption
<1>2. /\ IsDouble(y) /\ Near(y, p, Scale, lo, f, up)
  BY ProductsNear
<1>3. y.mant \in Nat /\ y.shift \in Nat
  BY <1>2, UnitHalves DEF IsDouble
<1>4. d \in Nat /\ d > 0
  <2> HIDE DEF y
  <2> QED
    BY <1>3, PowerPositive
<1>5. m * Scale * f <= p * d * up /\ p * d * lo <= m * Scale * f
  BY <1>2 DEF Near
<1>6. e \in Nat /\ e * Scale <= p /\ p < (e + 1) * Scale
  <2> HIDE DEF p
  <2>1. e \in Nat /\ p % Scale \in Nat /\ p % Scale < Scale /\ p = e * Scale + (p % Scale)
    BY <1>1, QuotientExact
  <2> DEFINE r == p % Scale
             k == e * Scale
  <2>2. k \in Nat /\ (e + 1) * Scale = k + Scale
    BY <1>1, <2>1
  <2> HIDE DEF e, r, k
  <2>3. r \in Nat /\ r < Scale /\ p = k + r
    BY <2>1 DEF r, k
  <2> QED
    BY <1>1, <2>1, <2>2, <2>3 DEF k
<1> HIDE DEF e, y
<1>7. /\ p * up < (e + 1) * Scale * f
      /\ (e - 1) * Scale * f <= p * lo
  <2>1. PICK b \in Nat, c \in Nat : /\ b > 0 /\ b * p = c * Scale
                                    /\ 4 * (b * p) <= Scale * u
    BY RoomForAmounts
  <2> HIDE DEF p, u
  <2> QED
    BY <1>1, <1>6, <2>1, ThreeRoundings
<1>8. /\ f \in Nat /\ f > 0 /\ up \in Nat /\ lo \in Nat /\ m \in Nat
  <2> HIDE DEF u
  <2>1. u * u \in Nat /\ u * u > 0 /\ (u + 1) * (u + 1) \in Nat /\ (u - 1) * (u - 1) \in Nat
    BY <1>1
  <2> QED
    BY <1>1, <1>3, <2>1
<1> HIDE DEF f, up, lo, d, m, u, p
<1>9. z \in Nat /\ z < e + 1
  BY <1>1, <1>4, <1>5, <1>6, <1>7, <1>8, BoundsFloor
<1>10. ASSUME e > 0 PROVE e - 1 <= z
  <2>1. e - 1 \in Nat
    BY <1>6, <1>10
  <2> QED
    BY <1>1, <1>4, <1>5, <1>7, <1>8, <2>1, BoundsFloor
<1>11. FiatVal(n, Rate) = z
  BY AmountsAssumption DEF FiatVal, Floor, y, m, d
<1>12. Exact(n) = e
  BY DEF Exact, e, p
<1> HIDE DEF z
<1> QED
  BY <1>6, <1>9, <1>10, <1>11, <1>12

\* The amount on the page: the fiat amount signed, or one minor unit more.
LEMMA FiatShownFaithful ==
    ASSUME NEW n \in Nat, ValidAmount(n)
    PROVE  FiatShown(n) \in {FiatVal(n, Rate), FiatVal(n, Rate) + 1}
<1> DEFINE x == Times(ParseFloat(n), Rate)
           y == Times(x, Minor)
           u == Unit
           b == 2^x.shift
           a == x.mant * Minor
           d == 2^y.shift
           m == y.mant
           z == m \div d
           k == (2 * a + b) \div (2 * b)
<1>1. /\ u \in Nat /\ u >= 4 /\ u > 0 /\ u - 1 \in Nat /\ u + 1 \in Nat
      /\ Scale \in Nat /\ Scale > 0 /\ Minor \in Nat /\ Rate \in Nat
      /\ Worth(n) \in Nat /\ 4 * Worth(n) <= Scale * u
  BY RoomForAmounts, AmountsAssumption
<1>2. /\ IsDouble(x) /\ IsDouble(y) /\ Near(y, a, b, u - 1, u, u + 1)
      /\ Near(x, n * Rate, Scale, (u - 1) * (u - 1), u * u, (u + 1) * (u + 1))
  BY ProductsNear
<1> HIDE DEF y
<1>3. x.mant \in Nat /\ x.shift \in Nat /\ y.mant \in Nat /\ y.shift \in Nat
  BY <1>2, UnitHalves DEF IsDouble
<1> HIDE DEF x
<1>4. a \in Nat /\ b \in Nat /\ b > 0 /\ d \in Nat /\ d > 0 /\ m \in Nat
  BY <1>1, <1>3, PowerPositive
<1>5. m * b * u <= a * d * (u + 1) /\ a * d * (u - 1) <= m * b * u
  BY <1>2 DEF Near
<1>6. x.mant * Scale * (u * u) <= n * Rate * b * ((u + 1) * (u + 1))
  BY <1>2 DEF Near
<1>7. FiatShown(n) = k /\ FiatVal(n, Rate) = z
  <2>1. FiatShown(n) = (2 * x.mant * Minor + b) \div (2 * b)
    BY DEF FiatShown, x
  <2>2. 2 * x.mant * Minor = 2 * a
    BY <1>1, <1>3
  <2>3. FiatVal(n, Rate) = z
    BY AmountsAssumption DEF FiatVal, Floor, x, y, d, m
  <2> HIDE DEF z, b, a
  <2> QED
    BY <2>1, <2>2, <2>3
<1>8. 2 * a <= b * u
  <2> HIDE DEF b, u
  <2> DEFINE s == u * u
             t == (u + 1) * (u + 1)
             mx == x.mant
             w == Worth(n)
  <2>1. s \in Nat /\ s > 0 /\ t \in Nat /\ t <= 2 * s
    <3>1. t = s + 2 * u + 1
      BY <1>1
    <3>2. 4 * u <= s
      BY <1>1
    <3>3. s \in Nat
      BY <1>1
    <3> HIDE DEF s, t
    <3> QED
      BY <1>1, <3>1, <3>2, <3>3
  <2> DEFINE g == n * Rate
             l == mx * Scale * s
             r == g * b * t
  <2>2. mx \in Nat /\ g \in Nat /\ w = g * Minor /\ a = mx * Minor
    BY <1>1, <1>3 DEF Worth
  <2>3. l \in Nat /\ r \in Nat /\ l <= r
    BY <1>1, <1>4, <1>6, <2>1, <2>2
  <2> HIDE DEF s, t, mx, w, g
  <2>4. l * Minor <= r * Minor
    <3> HIDE DEF l, r
    <3> QED
      BY <1>1, <2>3
  <2>5. l * Minor = a * Scale * s /\ r * Minor = w * b * t
    BY <1>1, <1>4, <2>1, <2>2
  <2> HIDE DEF l, r, a
  <2>6. w \in Nat /\ w * b * t <= (w * b) * (2 * s)
    <3> DEFINE j == w * b
    <3>1. w \in Nat
      BY <1>1 DEF w
    <3>2. j \in Nat
      BY <1>4, <3>1
    <3> HIDE DEF j
    <3>3. j * t <= j * (2 * s)
      BY <2>1, <3>2
    <3> QED
      BY <3>1, <3>3 DEF j
  <2>7. 2 * ((w * b) * (2 * s)) = (4 * w) * (b * s)
    BY <1>4, <2>1, <2>6
  <2>8. (4 * w) * (b * s) <= (Scale * u) * (b * s)
    <3> DEFINE i == 4 * w
               j == b * s
               k0 == Scale * u
    <3>1. i \in Nat /\ j \in Nat /\ k0 \in Nat /\ i <= k0
      BY <1>1, <1>4, <2>1, <2>6 DEF w
    <3> HIDE DEF i, j, k0
    <3>2. i * j <= k0 * j
      BY <3>1
    <3> QED
      BY <3>2 DEF i, j, k0
  <2>9. 2 * (a * Scale * s) = (2 * a) * (Scale * s) /\ (Scale * u) * (b * s) = (b * u) * (Scale * s)
    BY <1>1, <1>4, <2>1
  <2>10. (2 * a) * (Scale * s) <= (b * u) * (Scale * s)
    <3> DEFINE i == a * Scale * s
               j == w * b * t
               k0 == (w * b) * (2 * s)
               k1 == (4 * w) * (b * s)
               k2 == (Scale * u) * (b * s)
    <3>1. i \in Nat /\ j \in Nat /\ k0 \in Nat /\ k1 \in Nat /\ k2 \in Nat
      BY <1>1, <1>4, <2>1, <2>6
    <3>2. i <= j /\ j <= k0 /\ 2 * k0 = k1 /\ k1 <= k2
      BY <2>4, <2>5, <2>6, <2>7, <2>8
    <3> HIDE DEF i, j, k0, k1, k2
    <3>3. 2 * i <= k2
      BY <3>1, <3>2
    <3> QED
      BY <2>9, <3>3 DEF i, k2
  <2> DEFINE i == 2 * a
             j == b * u
             k0 == Scale * s
  <2>11. i \in Int /\ j \in Int /\ k0 \in Nat /\ k0 > 0 /\ i * k0 <= j * k0
    BY <1>1, <1>4, <2>1, <2>10
  <2> HIDE DEF i, j, k0
  <2>12. i <= j
    BY <2>11, Cancel
  <2> QED
    BY <2>12 DEF i, j
<1> HIDE DEF a, b, d, m, u
<1>9. k \in Nat /\ a * (u + 1) < (k + 1) * b * u /\ (k - 1) * b * u <= a * (u - 1)
  BY <1>1, <1>4, <1>8, RoundedAndCut
<1> HIDE DEF k
<1>10. z \in Nat /\ z < k + 1
  <2>1. k + 1 \in Nat
    BY <1>9
  <2> QED
    BY <1>1, <1>4, <1>5, <1>9, <2>1, BoundsFloor
<1>11. ASSUME k > 0 PROVE k - 1 <= z
  <2>1. k - 1 \in Nat
    BY <1>9, <1>11
  <2> QED
    BY <1>1, <1>4, <1>5, <1>9, <2>1, BoundsFloor
<1> HIDE DEF z
<1> QED
  BY <1>7, <1>9, <1>10, <1>11

-----------------------------------------------------------------------------
(***************************************************************************)
(* What the form holds and signs.  That a submission is complete and was   *)
(* priced carries over to the order made of it, so that the lemmas on      *)
(* amounts say of every order what they say of one amount.                 *)
(***************************************************************************)
SignedPriced ==
    \A order \in signed :
        /\ ValidAmount(order.amount)
        /\ order.stx = MicroSTX(order.amount)
        /\ order.fiat = FiatVal(order.amount, Rate)

FormInv == FormTypeOK /\ SignedPriced

LEMMA FormInvInit == FormAloneInit => FormInv
BY FormAssumption
DEF FormAloneInit, FormInit, FormInv, FormTypeOK, SignedPriced, Typed

\* An order made of a complete submission is an order at the prices of its amount.
LEMMA OrderComplete ==
    ASSUME NEW s, SubmissionOK(s), s.step = "sign"
    PROVE  LET order == [account |-> s.account, name |-> s.name, late |-> s.late,
                         amount |-> s.amount, stx |-> MicroSTX(s.amount), fiat |-> FiatVal(s.amount, s.rate)] IN
           /\ order \in Orders
           /\ ValidAmount(order.amount) /\ order.fiat = FiatVal(order.amount, Rate)
<1>1. /\ s.account \in Accounts /\ s.name \in Accounts /\ s.late \in BOOLEAN
      /\ s.amount \in Entered /\ s.amount \in Nat /\ ValidAmount(s.amount) /\ s.rate = Rate
    BY FormAssumption DEF SubmissionOK, Submissions
<1>2. MicroSTX(s.amount) \in Nat /\ FiatVal(s.amount, Rate) \in Nat
    BY <1>1, MicroSTXFaithful, FiatValFaithful
<1> QED BY <1>1, <1>2 DEF Orders

\* A submission stays complete from one step to the next.
LEMMA ProceedKeepsForm ==
    ASSUME FormInv, address' = address, NEW here \in BOOLEAN, NEW s,
           here => s \in {submission} \ {Nothing}, ~here => s \in orphans,
           Proceed(here, s)
    PROVE  FormInv'
<1>1. SubmissionOK(s) /\ (here => submission = s /\ s # Nothing /\ mounted)
    BY DEF FormInv, FormTypeOK
<1>2. CASE SubmitRefused(here, s)
    BY <1>1, <1>2 DEF SubmitRefused, Over, fields, FormInv, FormTypeOK, SignedPriced, SubmissionOK
<1>3. CASE Decline(here, s)
    BY <1>1, <1>3 DEF Decline, Over, fields, FormInv, FormTypeOK, SignedPriced, SubmissionOK
<1>4. CASE SubmitVerified(here, s)
    <2> DEFINE next == Submission("sign", s.account, s.account, FALSE, s.amount, s.rate)
    <2>1. s.account \in Accounts /\ s.account # Nothing
        BY <1>1, FormAssumption DEF SubmissionOK, Submissions
    <2>2. SubmissionOK(next)
        BY <1>1, <2>1 DEF SubmissionOK, Submissions, Submission
    <2> HIDE DEF next
    <2>3. CASE here
        <3>1. /\ submission' = next /\ accountName' = s.account /\ recipientVerified' = TRUE
              /\ lateAnswer' \in BOOLEAN
              /\ UNCHANGED <<mounted, account, orphans, verifying, rate, signed>>
            BY <1>4, <2>3 DEF SubmitVerified, next
        <3> QED BY <1>1, <2>1, <2>2, <2>3, <3>1
                DEF FormInv, FormTypeOK, SignedPriced, SubmissionOK
    <2>4. CASE ~here
        <3>1. /\ orphans' = (orphans \ {s}) \cup {next}
              /\ UNCHANGED <<mounted, account, accountName, recipientVerified, lateAnswer,
                             submission, verifying, rate, signed>>
            BY <1>4, <2>4 DEF SubmitVerified, next, fields
        <3> QED BY <2>2, <3>1 DEF FormInv, FormTypeOK, SignedPriced, SubmissionOK
    <2> QED BY <2>3, <2>4
<1>5. CASE Sign(here, s)
    <2> DEFINE order == [account |-> s.account, name |-> s.name, late |-> s.late,
                         amount |-> s.amount, stx |-> MicroSTX(s.amount), fiat |-> FiatVal(s.amount, s.rate)]
    <2>1. /\ order \in Orders /\ ValidAmount(order.amount)
          /\ order.stx = MicroSTX(order.amount) /\ order.fiat = FiatVal(order.amount, Rate)
        <3>1. s.step = "sign"
            BY <1>5 DEF Sign
        <3> QED BY <1>1, <3>1, OrderComplete
    <2>2. signed' = signed \cup {order}
        BY <1>5 DEF Sign
    <2> HIDE DEF order
    <2>3. SignedPriced' /\ signed' \subseteq Orders
        BY <2>1, <2>2 DEF FormInv, FormTypeOK, SignedPriced
    <2> QED BY <1>1, <1>5, <2>3
            DEF Sign, Over, Emptied, fields, FormInv, FormTypeOK, SubmissionOK, Typed
<1> QED BY <1>2, <1>3, <1>4, <1>5 DEF Proceed

LEMMA FormStepKeepsForm ==
    ASSUME FormInv, address' = address, FormStep(Typed, Entered)
    PROVE  FormInv'
<1>1. CASE LoadRate
    BY <1>1 DEF LoadRate, fields, FormInv, FormTypeOK, SignedPriced, SubmissionOK
<1>2. ASSUME NEW a \in Typed, Edit(a) PROVE FormInv'
    BY <1>2 DEF Edit, Unverify, FormInv, FormTypeOK, SignedPriced, SubmissionOK
<1>3. CASE Verify
    BY <1>3 DEF Verify, fields, FormInv, FormTypeOK, SignedPriced, SubmissionOK
<1>4. ASSUME NEW holder \in Accounts \cup {Nothing}, Verified(holder) PROVE FormInv'
    BY <1>4 DEF Verified, FormInv, FormTypeOK, SignedPriced, SubmissionOK
<1>5. ASSUME NEW n \in Entered, Submit(n) PROVE FormInv'
    <2>1. SubmissionOK(submission')
        BY <1>5 DEF Submit, Submission, FormInv, FormTypeOK, SubmissionOK, Submissions
    <2> QED BY <1>5, <2>1 DEF Submit, fields, FormInv, FormTypeOK, SignedPriced, SubmissionOK
<1>6. ASSUME NEW s \in {submission} \ {Nothing}, Proceed(TRUE, s) PROVE FormInv'
    BY <1>6, ProceedKeepsForm
<1>7. ASSUME NEW s \in orphans, Proceed(FALSE, s) PROVE FormInv'
    BY <1>7, ProceedKeepsForm
<1> QED BY <1>1, <1>2, <1>3, <1>4, <1>5, <1>6, <1>7 DEF FormStep

LEMMA PageChangesKeepForm ==
    ASSUME FormInv, PageChanges
    PROVE  FormInv'
<1>1. address' \in Addresses \cup {Nothing}
    BY DEF PageChanges
<1>2. CASE Mount
    BY <1>1, <1>2 DEF Mount, fields, FormInv, FormTypeOK, SignedPriced, SubmissionOK
<1>3. CASE Unmount
    BY <1>1, <1>3 DEF Unmount, Emptied, FormInv, FormTypeOK, SignedPriced, SubmissionOK, Typed
<1>4. CASE UnmountPage
    BY <1>1, <1>4 DEF UnmountPage, Emptied, FormInv, FormTypeOK, SignedPriced, SubmissionOK, Typed
<1>5. CASE UNCHANGED form
    BY <1>1, <1>5 DEF form, fields, FormInv, FormTypeOK, SignedPriced, SubmissionOK
<1> QED BY <1>2, <1>3, <1>4, <1>5 DEF PageChanges

LEMMA FormInvAlways == FormSpec => []FormInv
<1>1. FormInv /\ [FormNext]_formVars => FormInv'
    <2> SUFFICES ASSUME FormInv, [FormNext]_formVars PROVE FormInv'
        OBVIOUS
    <2>1. CASE FormStep(Typed, Entered) /\ UNCHANGED address
        BY <2>1, FormStepKeepsForm
    <2>2. CASE PageChanges
        BY <2>2, PageChangesKeepForm
    <2>3. CASE UNCHANGED formVars
        BY <2>3 DEF formVars, form, fields, FormInv, FormTypeOK, SignedPriced, SubmissionOK
    <2> QED BY <2>1, <2>2, <2>3 DEF FormNext
<1> QED BY FormInvInit, <1>1, PTL DEF FormSpec

\* handleSubmit: the form's types, that it calls nothing verified without a name,
\* and that no submission goes on that is incomplete or was not priced.
THEOREM FormTypeAlways == FormSpec => []FormTypeOK
<1>1. FormInv => FormTypeOK
    BY DEF FormInv
<1> QED BY FormInvAlways, <1>1, PTL

\* parseFloat, the two products and Math.floor of handleSubmit, with numbers of
\* any precision that has room for the amounts: whatever is typed, the order signed
\* is for the amount or one smallest unit less, and for its worth or one minor
\* unit less, which is what the page shows or one less.
THEOREM AmountsAlwaysFaithful == FormSpec => []AmountsFaithful
<1>1. FormInv => AmountsFaithful
    <2> SUFFICES ASSUME FormInv, NEW order \in signed
                 PROVE  LET exact == (order.amount * Rate * Minor) \div Scale IN
                        /\ order.stx \in {order.amount - 1, order.amount}
                        /\ order.fiat \in {exact - 1, exact}
                        /\ FiatShown(order.amount) \in {order.fiat, order.fiat + 1}
        BY DEF AmountsFaithful
    <2>1. /\ order.amount \in Nat /\ ValidAmount(order.amount)
          /\ order.stx = MicroSTX(order.amount) /\ order.fiat = FiatVal(order.amount, Rate)
        BY FormAssumption DEF FormInv, FormTypeOK, SignedPriced, Orders
    <2>2. Exact(order.amount) = (order.amount * Rate * Minor) \div Scale
        BY DEF Exact, Worth
    <2>3. order.stx \in {order.amount - 1, order.amount}
        BY <2>1, MicroSTXFaithful
    <2>4. order.fiat \in {Exact(order.amount) - 1, Exact(order.amount)}
        BY <2>1, FiatValFaithful
    <2>5. FiatShown(order.amount) \in {order.fiat, order.fiat + 1}
        BY <2>1, FiatShownFaithful
    <2> QED BY <2>2, <2>3, <2>4, <2>5
<1> QED BY FormInvAlways, <1>1, PTL

=============================================================================
