SPECIFICATION Spec
CONSTANTS
  Xids = {1}
  Lsns = {7}
  Relids = {1, 2}
  Jsons = {5}
  Keys = {1, 3}
  Rows = {4, 6}
INVARIANTS
  CallbacksGetWhatWasSent
