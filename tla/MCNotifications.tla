--------------------------- MODULE MCNotifications ---------------------------
(* A small instance of Notifications for TLC. *)
EXTENDS Notifications, TLC

Both == {"sms", "email"}
Says(kind, contacts, primary) == [kind |-> kind, contacts |-> contacts, primary |-> primary]
MCPayloads ==
  {Says("payment.matched", Both, Nothing),
   Says("obligation.cancelled", Both, Nothing),
   Says("config.psp.created", {}, Nothing), Says("billing.wallet.topup_success", {}, Nothing),
   Says("auth.welcome", Both, "sms"), Says("auth.mfa_request", Both, "email")}
MCDrafts ==
  {[type |-> "OBLIGATION_CANCELLED", channel |-> "email", default |-> TRUE]}
MCPreferences == {[on |-> on, channels |-> Both] : on \in BOOLEAN}
=============================================================================
