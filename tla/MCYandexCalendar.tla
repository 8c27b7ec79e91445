-------------------------- MODULE MCYandexCalendar --------------------------
(* One Yandex calendar with one event that lies in the past and one ahead.  *)
EXTENDS YandexCalendar

PastAndAhead == {<<0 - 2, 1>>}
=============================================================================
