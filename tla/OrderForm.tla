----------------------------- MODULE OrderForm ------------------------------
(***************************************************************************)
(* CreateOrderForm, where a customer types an amount, names a bank         *)
(* account, has it verified and signs a create-order transaction.  Its     *)
(* asynchronous handlers share the form's state, and the customer can type *)
(* while they wait: each handler goes on with the values of the render it  *)
(* started in, and writes into whatever the form holds when it gets its    *)
(* answer.  A submission goes on after the form is unmounted.              *)
(***************************************************************************)
EXTENDS Amounts, FiniteSets

CONSTANTS
    Addresses,      \* the customer's STX addresses
    Accounts,       \* well-formed pairs of bank code and account number
    Unknown,        \* the accounts no bank knows
    Malformed,      \* stands for the pairs that validation rejects
    Nothing,        \* an empty field, or no request under way
    Entered,        \* the amounts typed
    MaxOrders,      \* bound: the transactions signed
    MaxOrphans      \* bound: submissions of forms that are gone

ASSUME FormAssumption ==
    /\ Unknown \subseteq Accounts
    /\ Malformed \notin Accounts /\ Nothing \notin Accounts /\ Malformed # Nothing
    /\ Nothing \notin Addresses
    /\ Entered \subseteq Nat
    /\ MaxOrders \in Nat /\ MaxOrphans \in Nat

VARIABLES
    mounted,        \* whether the form is on the page
    address,        \* the address of WalletContext, or Nothing
    account,        \* bankCode and accountNumber
    accountName,    \* the account whose holder's name is shown
    recipientVerified,
    lateAnswer,     \* ghost: the last answer the form took in was about another
                    \* account than the form held by then
    verifying,      \* isVerifyingRecipient: the account being asked about
    rate,           \* 0 until it is loaded ("calculating")
    submission,     \* isSubmitting: the submission under way
    orphans,        \* submissions that forms now gone have under way
    signed          \* the orders sent to the contract

fields == <<account, accountName, recipientVerified>>
form == <<mounted, fields, lateAnswer, verifying, rate, submission, orphans, signed>>

\* A submission asks the bank first ("verify") unless the recipient is
\* verified, and then waits for the wallet ("sign").
\* late: whether it goes by a late answer (ghost).
Submission(step, a, name, late, n, r) ==
    [step |-> step, account |-> a, name |-> name, late |-> late, amount |-> n, rate |-> r]
Submissions == [step : {"verify", "sign"}, account : Accounts,
                name : Accounts \cup {Nothing}, late : BOOLEAN,
                amount : Entered, rate : {0, Rate}]

\* What an order hashes and asks for, with what it was made from.
Orders == [account : Accounts, name : Accounts, late : BOOLEAN,
           amount : Entered, stx : Nat, fiat : Nat]

FormInit ==
    /\ mounted = FALSE
    /\ account = Nothing /\ accountName = Nothing /\ recipientVerified = FALSE
    /\ lateAnswer = FALSE
    /\ verifying = Nothing /\ rate = 0 /\ submission = Nothing
    /\ orphans = {} /\ signed = {}

-----------------------------------------------------------------------------
Mount ==
    /\ ~mounted
    /\ mounted' = TRUE
    /\ UNCHANGED <<fields, lateAnswer, verifying, rate, submission, orphans, signed>>

Emptied ==
    /\ account' = Nothing /\ accountName' = Nothing /\ recipientVerified' = FALSE
    /\ lateAnswer' = FALSE

\* The form is gone, a submission under way is not.
Unmount ==
    /\ mounted
    /\ mounted' = FALSE
    /\ Emptied
    /\ verifying' = Nothing /\ rate' = 0 /\ submission' = Nothing
    /\ orphans' = IF submission = Nothing THEN orphans ELSE orphans \cup {submission}
    /\ Cardinality(orphans') <= MaxOrphans
    /\ UNCHANGED signed

\* The page is gone: of what was under way, only the wallet's windows remain.
UnmountPage ==
    /\ mounted' = FALSE
    /\ Emptied
    /\ verifying' = Nothing /\ rate' = 0 /\ submission' = Nothing
    /\ orphans' = {s \in orphans \cup {submission} : s # Nothing /\ s.step = "sign"}
    /\ Cardinality(orphans') <= MaxOrphans
    /\ UNCHANGED signed

\* loadRate, after its await.
LoadRate ==
    /\ mounted /\ rate = 0
    /\ rate' = Rate
    /\ UNCHANGED <<mounted, fields, lateAnswer, verifying, submission, orphans, signed>>

\* An effect of every change of the bank code or the account number.
Unverify == recipientVerified' = FALSE /\ lateAnswer' = FALSE

\* Typing into the bank code or the account number, also while an answer is
\* awaited; the account name stays.
Edit(a) ==
    /\ mounted /\ a # account
    /\ account' = a
    /\ Unverify
    /\ UNCHANGED <<mounted, accountName, verifying, rate, submission, orphans, signed>>

-----------------------------------------------------------------------------
\* verifyRecipient answers: the holder's name, or that there is none (a
\* failed request is handled like the latter).
Answers(a) == IF a \in Unknown THEN {Nothing} ELSE {a, Nothing}

\* handleVerifyRecipient; its button is disabled while it runs.
Verify ==
    /\ mounted /\ verifying = Nothing /\ account \in Accounts
    /\ verifying' = account
    /\ UNCHANGED <<mounted, fields, lateAnswer, rate, submission, orphans, signed>>

\* Mutant: any answer of the endpoint passes for a verification.
VerifiedUnchecked(holder) ==
    /\ verifying # Nothing /\ holder \in Answers(verifying)
    /\ verifying' = Nothing
    /\ recipientVerified' = TRUE
    /\ accountName' = holder
    /\ lateAnswer' = (verifying # account)
    /\ UNCHANGED <<mounted, account, rate, submission, orphans, signed>>

\* handleVerifyRecipient, after its await.
Verified(holder) ==
    /\ verifying # Nothing /\ holder \in Answers(verifying)
    /\ verifying' = Nothing
    /\ recipientVerified' = (holder # Nothing)
    /\ accountName' = IF holder # Nothing THEN holder ELSE accountName
    /\ lateAnswer' = (holder # Nothing /\ verifying # account)
    /\ UNCHANGED <<mounted, account, rate, submission, orphans, signed>>

-----------------------------------------------------------------------------
\* Mutant: a name left over from an earlier account passes for a verification.
SubmitNamed(n) ==
    /\ mounted /\ address # Nothing /\ rate # 0 /\ submission = Nothing
    /\ account \in Accounts /\ ValidAmount(n)
    /\ submission' = Submission(IF accountName # Nothing THEN "sign" ELSE "verify",
                                account, accountName, lateAnswer, n, rate)
    /\ UNCHANGED <<mounted, fields, lateAnswer, verifying, rate, orphans, signed>>

\* Mutant: the button does not wait for the rate.
SubmitUnpriced(n) ==
    /\ mounted /\ address # Nothing /\ submission = Nothing
    /\ account \in Accounts /\ ValidAmount(n)
    /\ submission' =
         Submission(IF recipientVerified /\ accountName # Nothing THEN "sign" ELSE "verify",
                    account, accountName, lateAnswer, n, rate)
    /\ UNCHANGED <<mounted, fields, lateAnswer, verifying, rate, orphans, signed>>

\* handleSubmit; its button is disabled while it runs, while the rate is being
\* loaded and without a wallet.
Submit(n) ==
    /\ mounted /\ address # Nothing /\ rate # 0 /\ submission = Nothing
    /\ account \in Accounts /\ ValidAmount(n)
    /\ submission' =
         Submission(IF recipientVerified /\ accountName # Nothing THEN "sign" ELSE "verify",
                    account, accountName, lateAnswer, n, rate)
    /\ UNCHANGED <<mounted, fields, lateAnswer, verifying, rate, orphans, signed>>

\* A submission, of the form on the page ("here") or of one that is gone,
\* whose state nobody sees any more.
UnderWay(here, s) == IF here THEN submission # Nothing /\ s = submission ELSE s \in orphans

Over(here, s) ==
    IF here THEN submission' = Nothing /\ UNCHANGED orphans
    ELSE orphans' = orphans \ {s} /\ UNCHANGED submission

\* handleSubmit, after its own call of verifyRecipient: it throws without an
\* answer, or opens the wallet's window.
SubmitRefused(here, s) ==
    /\ UnderWay(here, s) /\ s.step = "verify"
    /\ Over(here, s)
    /\ UNCHANGED <<mounted, fields, lateAnswer, verifying, rate, signed>>

SubmitVerified(here, s) ==
    /\ UnderWay(here, s) /\ s.step = "verify" /\ s.account \in Answers(s.account)
    /\ LET next == Submission("sign", s.account, s.account, FALSE, s.amount, s.rate) IN
       IF here THEN /\ submission' = next
                    /\ accountName' = s.account
                    /\ recipientVerified' = TRUE
                    /\ lateAnswer' = (s.account # account)
                    /\ UNCHANGED <<account, orphans>>
       ELSE /\ orphans' = (orphans \ {s}) \cup {next}
            /\ UNCHANGED <<fields, lateAnswer, submission>>
    /\ UNCHANGED <<mounted, verifying, rate, signed>>

\* onFinish: the wallet signed, and the form is emptied.
Sign(here, s) ==
    /\ UnderWay(here, s) /\ s.step = "sign" /\ Cardinality(signed) < MaxOrders
    /\ signed' = signed \cup
         {[account |-> s.account, name |-> s.name, late |-> s.late, amount |-> s.amount,
           stx |-> MicroSTX(s.amount), fiat |-> FiatVal(s.amount, s.rate)]}
    /\ Over(here, s)
    /\ IF here THEN Emptied ELSE UNCHANGED <<fields, lateAnswer>>
    /\ UNCHANGED <<mounted, verifying, rate>>

\* onCancel, or an error of the wallet.
Decline(here, s) ==
    /\ UnderWay(here, s) /\ s.step = "sign"
    /\ Over(here, s)
    /\ UNCHANGED <<mounted, fields, lateAnswer, verifying, rate, signed>>

Proceed(here, s) ==
    \/ SubmitRefused(here, s) \/ SubmitVerified(here, s)
    \/ Sign(here, s) \/ Decline(here, s)

\* What the form and the customer at it do; typed and entered are what the
\* customer types.
FormStep(typed, entered) ==
    \/ LoadRate
    \/ \E a \in typed : Edit(a)
    \/ Verify \/ \E holder \in Accounts \cup {Nothing} : Verified(holder)
    \/ \E n \in entered : Submit(n)
    \/ \E s \in {submission} \ {Nothing} : Proceed(TRUE, s)
    \/ \E s \in orphans : Proceed(FALSE, s)

-----------------------------------------------------------------------------
(* The form by itself: it is opened and left, and the wallet changes, on   *)
(* its own or at the same time.                                            *)

Typed == Accounts \cup {Malformed, Nothing}
formVars == <<form, address>>

FormAloneInit == FormInit /\ address \in Addresses \cup {Nothing}

PageChanges ==
    /\ Mount \/ Unmount \/ UnmountPage \/ UNCHANGED form
    /\ address' \in Addresses \cup {Nothing}

FormNext == (FormStep(Typed, Entered) /\ UNCHANGED address) \/ PageChanges

FormSpec == FormAloneInit /\ [][FormNext]_formVars

-----------------------------------------------------------------------------
\* A submission waiting for the wallet has a name to hash, and was priced.
SubmissionOK(s) ==
    /\ s \in Submissions
    /\ s.step = "sign" => s.name # Nothing
    /\ ValidAmount(s.amount) /\ s.rate = Rate

\* Type invariant: the page says "verified" only beside a name, nothing is
\* under way in a form that is gone, and submissions are complete.
FormTypeOK ==
    /\ mounted \in BOOLEAN
    /\ address \in Addresses \cup {Nothing}
    /\ account \in Typed
    /\ accountName \in Accounts \cup {Nothing}
    /\ recipientVerified \in BOOLEAN /\ lateAnswer \in BOOLEAN
    /\ recipientVerified => accountName # Nothing
    /\ verifying \in Accounts \cup {Nothing}
    /\ rate \in {0, Rate}
    /\ submission # Nothing => SubmissionOK(submission)
    /\ \A s \in orphans : SubmissionOK(s)
    /\ ~mounted => /\ account = Nothing /\ accountName = Nothing
                   /\ verifying = Nothing /\ submission = Nothing /\ rate = 0
    /\ signed \subseteq Orders

\* The bank details of an order are an account some bank knows and the name
\* of its own holder: they were verified before the order was created, as the
\* verify-recipient endpoint says.
DetailsVerified ==
    \A order \in signed : order.name = order.account /\ order.account \notin Unknown

\* How far that is kept: the name in an order is one that a bank gave, and it is
\* that of the order's own account unless an answer that came after the account
\* was edited had marked the new one as verified.  No name left over from an
\* earlier account, no answer that there is none, no submission of a form that
\* was left or emptied meanwhile makes an order with unverified details.
VerifiedUnlessLate ==
    \A order \in signed :
        /\ order.name \notin Unknown
        /\ ~order.late => order.name = order.account

\* Whatever amount is typed, and whenever the form is submitted, the order is
\* for exactly that amount of STX or one smallest unit less, never for more; its
\* fiat amount is the product with the rate or one minor unit less, and no more
\* than one below what the page shows.
AmountsFaithful ==
    \A order \in signed :
        LET exact == (order.amount * Rate * Minor) \div Scale IN
        /\ order.stx \in {order.amount - 1, order.amount}
        /\ order.fiat \in {exact - 1, exact}
        /\ FiatShown(order.amount) \in {order.fiat, order.fiat + 1}

=============================================================================
