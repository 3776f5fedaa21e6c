SPECIFICATION Spec
CONSTANTS
  Clusters = {A, B}
  MaxSwitches = 1
  MaxOutages = 1
  None = None
PROPERTIES BannerSettles CostsSettle MapSettles
