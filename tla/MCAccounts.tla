----------------------------- MODULE MCAccounts -----------------------------
(* Instances of Accounts for TLC: which handlers the clients use. *)
EXTENDS Accounts, TLC

CONSTANTS p1, p2, r1, r2, a1, a2, e1, e2, m1, m2

(* One spelling of each number, or two of one. *)
SpelledAlike == [c \in Mobile |-> c]
TwoSpellings == [c \in Mobile |-> m1]

(* All that an account goes through, one request at a time; the handlers   *)
(* that are not here are in the sets below.                                *)
AccountHandlers ==
  {PubMyEmail, PubMyMobile, VerifyEmail, VerifyMobile, SignUp, GenGa, BindGa, UnbindGa,
   ResEmail, RevEmail, RevMobile, VerifyGa, PubRevMobile, PubVerifyGa, MyEmail, MyMobile,
   MyNewEmail, ChangeEmail, BindEmailBy, BindMobileBy, ForgetSendEmailByMobile,
   PresetPassword, DoResetPassword}

(* Logins of two clients, and what keeps a session. *)
SessionHandlers ==
  {PubMyEmail, VerifyEmail, SignUp, SignIn, Refresh, PubResEmail, PubRevEmail, ResEmail,
   RevEmail, PresetPassword, ChangeNick, ForgetE, ForgetSendEmailByEmail, ValidateEmail}

(* Two requests at a time: one account, both contacts, google-authenticator. *)
RaceHandlers == {PubMyMobile, VerifyMobile, SignUp, MyEmail, RevEmail, ResMobile,
                 UnbindGa, ForgetSendSMSByEmail}

(* Two accounts and the same contacts, and an operator. *)
OperatorHandlers == {KYC, KycQueryById, KycQueryByContact, KycSetUserStatus, QueryUserByAddr}
TwoAccountHandlers ==
  OperatorHandlers
  \cup {PubMyMobile, VerifyMobile, SignUp, MyEmail, MyNewMobile, ChangeMobile, PubResMobile,
        ForgetM, ForgetSendSMSByMobile, ValidateMobile}

(* Runs that look for one thing. *)
SharingHandlers == {PubMyMobile, VerifyMobile, SignUp, MyEmail, ResEmail, RevEmail}
SpellingHandlers == {PubMyEmail, VerifyEmail, SignUp, MyMobile, ResMobile, RevMobile}
VisitorHandlers == {PubMyEmail, VerifyEmail, SignUp}
LoginHandlers   == {PubMyEmail, VerifyEmail, SignUp, SignIn, PubResEmail, PubRevEmail, Refresh}
UnbindHandlers  == {PubMyEmail, VerifyEmail, SignUp, ResEmail, GenGa, BindGa, VerifyGa, UnbindGa}
MemberHandlers  == {PubMyEmail, VerifyEmail, SignUp, ResEmail, GenGa, BindGa, BindEmailBy}

Alike == Permutations(Client) \cup Permutations(Req)
AlikeAccounts == Alike \cup Permutations(Account) \cup Permutations(Mobile)

=============================================================================
