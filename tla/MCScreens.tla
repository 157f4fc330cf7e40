----------------------------- MODULE MCScreens ------------------------------
(***************************************************************************)
(* Screens with one tour per page and per section, so that a run goes      *)
(* through all of them and no run through their product.                   *)
(***************************************************************************)
EXTENDS Screens

Tour(pages, section, also) == [pages |-> pages, section |-> section, also |-> also]

PageTours == {Tour({p}, Null, {}) : p \in {"inventory", "bills", "shopping", "calendar", "budgets"}}

SectionTours ==
  {Tour({"settings"}, s, {}) :
     s \in {"profile", "family", "events", "scheduled", "categories", "labels", "sms",
            "notifications"}}

OtherTours ==
  {Tour({"settings", "bills"}, "joinRequests", {"bell"}),
   Tour({"dashboard", "transactions"}, Null, {"form", "import", "reader", "box"}),
   Tour({}, Null, {"bell", "form"}),
   Tour({"accounts"}, Null, {"account"}),
   Tour({"bills"}, Null, {"form", "box"}),
   Tour({"settings"}, "labels", {"box"}),
   Tour({"market"}, "grid", {}),
   Tour({"market"}, "stock", {})}

AllTours == PageTours \cup SectionTours \cup OtherTours
AccountTour == {Tour({"accounts"}, Null, {"account"})}
SomeBalances == 0..2
=============================================================================
